---- MODULE Spec2Model ----
(***************************************************************************)
(* Word-cloud layout of BasicStatsView.vue (drawWordCloud, "basic") and of *)
(* the case-count view in unnamed/part_004 (drawWordCloud, "count").       *)
(*                                                                         *)
(* Lengths are fixed-point integers in units of 1/Unit px.  Math.cos,      *)
(* Math.sin and Math.pow are tabulated at the arguments the code uses,     *)
(* rounded to 1/1000.                                                      *)
(***************************************************************************)
EXTENDS Integers, Sequences, FiniteSets, TLC

VARIABLES view, pc, data, width, words, idx, placed, rects, pass, wi, passes,
          drawn, emptyMsg, probe, rng, placedCount,
          maxValue, roundedMaxValue, interval, ticks, nextTick,
          loading, error, datasets, calls,
          mounted, listening, resizeTimer, timers, now, resizeEvents, redraws,
          container, draws

\* the chart axis: getRoundedMax and calculateYTicks
axisVars == <<maxValue, roundedMaxValue, interval, ticks, nextTick>>

\* the word-cloud pass without its position
layoutData == <<view, data, width, words, idx, placed, rects, pass, wi, passes,
                drawn, emptyMsg, probe, rng>>

\* the data store: its flags, its four dataset refs, the loadAllData calls
storeVars == <<loading, error, datasets, calls>>

\* the view's life: mount state, resize listener and timers, the clock, the
\* resize events and redraws so far, the container and the drawWordCloud
\* invocations
lifeVars == <<mounted, listening, resizeTimer, timers, now, resizeEvents,
              redraws, container, draws>>

\* what a word-cloud pass never touches
otherVars == <<placedCount, axisVars, storeVars, lifeVars>>

\* what the round count, the chart axis and the store never touch
outsideRounds == <<layoutData, pc, axisVars, storeVars, lifeVars>>
outsideAxis == <<layoutData, placedCount, storeVars, lifeVars>>
outsideStore == <<layoutData, pc, placedCount, axisVars, lifeVars>>
outsideLife == <<layoutData, pc, placedCount, axisVars, storeVars>>

vars == <<view, pc, data, width, words, idx, placed, rects, pass, wi, passes,
          drawn, emptyMsg, probe, rng, otherVars>>

\* ---------------------------------------------------------------- bounds
\* records per dataset
MaxItems == 2

\* glyph counts of the labels, weights of the records, container widths (px)
LabelLengths == {1, 2}
Weights == {1, 2}
Widths == {20, 48}

\* states of the generator behind Math.random() when a pass starts
RngStates == 3

\* records of the crowded layout
MaxCrowd == 26

\* largest number of placed words the round count is computed for
MaxPlaced == 320

\* chart maxima: every multiple of 1/ValDen up to MaxValue, and some large ones
MaxValue == 1100
BigValues == {4999, 5000, 5001, 10001, 26000}

\* a chart maximum is held as a multiple of 1/ValDen
ValDen == 2

\* the clock of the view's life runs to MaxTime ticks of TickMs milliseconds
\* and the window is resized at most MaxResizes times
MaxTime == 9
MaxResizes == 3
TickMs == 50

\* fixed-point unit: 1 px = Unit; the tables hold 1000 times the value
Unit == 100
TrigUnit == 1000

\* ------------------------------------------------------- program constants
PaletteLen == 18

\* setTimeout(..., 200) in onResize
DebounceMs == 200
MinFont == 10
FontStep == 2

Views == {"basic", "count"}

CanvasHeight(v) == IF v = "basic" THEN 360 ELSE 400
Pad(v) == IF v = "basic" THEN 1 * Unit ELSE 2 * Unit
\* faulty variant: a spiral loop capped at ten candidates
SpiralCapTen(v) == 10

SpiralCap(v) == IF v = "basic" THEN 3000 ELSE 2000
SqueezeCap(v) == IF v = "basic" THEN 140 ELSE 80
MinFontRange == 12
MaxFontPx(v) == IF v = "basic" THEN 42 ELSE 44

\* Math.cos(0.35 * t) and Math.sin(0.35 * t) for t = 0 .. 2999, times 1000
CosTab == <<
    1000, 939, 765, 498, 170, -178, -505, -770, -942, -1000, -936, -759, -490, -162, 187, 512, 776, 945, 1000, 933,
    754, 483, 153, -195, -519, -781, -948, -1000, -930, -748, -476, -145, 203, 526, 786, 950, 999, 927, 743, 468,
    137, -211, -534, -791, -953, -999, -924, -737, -461, -128, 219, 541, 796, 955, 999, 921, 731, 453, 120, -228,
    -548, -801, -958, -998, -918, -726, -446, -112, 236, 555, 806, 960, 998, 914, 720, 438, 103, -244, -562, -811,
    -963, -997, -911, -714, -431, -95, 252, 569, 816, 965, 996, 907, 708, 423, 87, -260, -576, -821, -967, -996,
    -904, -702, -415, -78, 268, 582, 826, 969, 995, 900, 696, 408, 70, -276, -589, -831, -971, -994, -896, -690,
    -400, -61, 285, 596, 835, 973, 993, 893, 684, 392, 53, -293, -603, -840, -975, -992, -889, -678, -385, -45,
    301, 609, 844, 977, 991, 885, 672, 377, 36, -309, -616, -849, -979, -990, -881, -665, -369, -28, 317, 623,
    853, 980, 989, 877, 659, 361, 19, -325, -629, -858, -982, -987, -873, -653, -353, -11, 332, 636, 862, 984,
    986, 869, 646, 345, 3, -340, -642, -866, -985, -984, -865, -640, -337, 6, 348, 649, 870, 986, 983, 860,
    633, 330, -14, -356, -655, -874, -988, -981, -856, -627, -322, 23, 364, 661, 878, 989, 980, 852, 620, 314,
    -31, -372, -668, -882, -990, -978, -847, -614, -306, 39, 380, 674, 886, 991, 976, 843, 607, 298, -48, -387,
    -680, -890, -992, -974, -838, -600, -290, 56, 395, 686, 894, 993, 972, 833, 593, 282, -65, -403, -692, -898,
    -994, -970, -829, -587, -273, 73, 411, 698, 901, 995, 968, 824, 580, 265, -81, -418, -704, -905, -996, -966,
    -819, -573, -257, 90, 426, 710, 909, 997, 964, 814, 566, 249, -98, -433, -716, -912, -997, -962, -810, -559,
    -241, 106, 441, 722, 915, 998, 959, 805, 552, 233, -115, -448, -728, -919, -998, -957, -800, -545, -225, 123,
    456, 734, 922, 999, 955, 794, 538, 216, -131, -463, -739, -925, -999, -952, -789, -531, -208, 140, 471, 745,
    928, 1000, 949, 784, 524, 200, -148, -478, -750, -932, -1000, -947, -779, -517, -192, 156, 486, 756, 935, 1000,
    944, 774, 509, 183, -165, -493, -761, -938, -1000, -941, -768, -502, -175, 173, 500, 767, 940, 1000, 938, 763,
    495, 167, -181, -508, -772, -943, -1000, -935, -757, -488, -159, 190, 515, 778, 946, 1000, 932, 752, 480, 150,
    -198, -522, -783, -949, -1000, -929, -746, -473, -142, 206, 529, 788, 951, 999, 926, 741, 465, 134, -214, -536,
    -793, -954, -999, -923, -735, -458, -125, 222, 543, 798, 956, 999, 920, 729, 450, 117, -231, -550, -803, -959,
    -998, -916, -723, -443, -109, 239, 557, 808, 961, 998, 913, 718, 435, 100, -247, -564, -813, -963, -997, -909,
    -712, -428, -92, 255, 571, 818, 966, 996, 906, 706, 420, 84, -263, -578, -823, -968, -995, -902, -700, -413,
    -75, 271, 585, 828, 970, 995, 899, 694, 405, 67, -279, -592, -832, -972, -994, -895, -688, -397, -58, 287,
    598, 837, 974, 993, 891, 682, 389, 50, -296, -605, -841, -976, -992, -887, -675, -382, -42, 304, 612, 846,
    978, 991, 883, 669, 374, 33, -312, -618, -850, -979, -989, -879, -663, -366, -25, 320, 625, 855, 981, 988,
    875, 657, 358, 16, -327, -632, -859, -983, -987, -871, -650, -350, -8, 335, 638, 863, 984, 985, 867, 644,
    342, 0, -343, -645, -868, -986, -984, -863, -637, -335, 9, 351, 651, 872, 987, 982, 859, 631, 327, -17,
    -359, -657, -876, -988, -981, -854, -624, -319, 26, 367, 664, 880, 989, 979, 850, 618, 311, -34, -375, -670,
    -884, -991, -977, -846, -611, -303, 42, 382, 676, 888, 992, 976, 841, 604, 295, -51, -390, -682, -892, -993,
    -974, -836, -598, -287, 59, 398, 688, 895, 994, 972, 832, 591, 279, -68, -406, -694, -899, -995, -970, -827,
    -584, -270, 76, 413, 701, 903, 996, 968, 822, 577, 262, -84, -421, -706, -906, -996, -965, -818, -570, -254,
    93, 429, 712, 910, 997, 963, 813, 564, 246, -101, -436, -718, -913, -998, -961, -808, -557, -238, 110, 444,
    724, 917, 998, 959, 803, 550, 230, -118, -451, -730, -920, -999, -956, -798, -543, -222, 126, 459, 736, 923,
    999, 954, 793, 535, 213, -135, -466, -741, -926, -999, -951, -787, -528, -205, 143, 474, 747, 930, 1000, 948,
    782, 521, 197, -151, -481, -752, -933, -1000, -946, -777, -514, -189, 160, 488, 758, 936, 1000, 943, 772, 507,
    180, -168, -496, -763, -939, -1000, -940, -766, -499, -172, 176, 503, 769, 941, 1000, 937, 761, 492, 164, -184,
    -510, -774, -944, -1000, -934, -755, -485, -156, 193, 517, 779, 947, 1000, 931, 750, 477, 147, -201, -525, -785,
    -950, -1000, -928, -744, -470, -139, 209, 532, 790, 952, 999, 925, 739, 463, 131, -217, -539, -795, -955, -999,
    -922, -733, -455, -122, 226, 546, 800, 957, 998, 918, 727, 448, 114, -234, -553, -805, -960, -998, -915, -721,
    -440, -106, 242, 560, 810, 962, 997, 912, 715, 433, 97, -250, -567, -815, -964, -997, -908, -710, -425, -89,
    258, 574, 820, 966, 996, 905, 704, 417, 80, -266, -581, -825, -969, -995, -901, -698, -410, -72, 274, 587,
    829, 971, 994, 897, 692, 402, 64, -282, -594, -834, -973, -993, -894, -685, -394, -55, 290, 601, 839, 975,
    992, 890, 679, 387, 47, -299, -608, -843, -976, -991, -886, -673, -379, -38, 307, 614, 848, 978, 990, 882,
    667, 371, 30, -315, -621, -852, -980, -989, -878, -661, -363, -22, 322, 628, 856, 982, 988, 874, 654, 355,
    13, -330, -634, -861, -983, -986, -870, -648, -347, -5, 338, 641, 865, 985, 985, 866, 641, 340, -4, -346,
    -647, -869, -986, -983, -861, -635, -332, 12, 354, 653, 873, 987, 982, 857, 628, 324, -20, -362, -660, -877,
    -989, -980, -853, -622, -316, 29, 370, 666, 881, 990, 978, 848, 615, 308, -37, -378, -672, -885, -991, -977,
    -844, -609, -300, 46, 385, 678, 889, 992, 975, 839, 602, 292, -54, -393, -685, -893, -993, -973, -835, -595,
    -284, 62, 401, 691, 897, 994, 971, 830, 588, 276, -71, -409, -697, -900, -995, -969, -825, -582, -267, 79,
    416, 703, 904, 996, 967, 821, 575, 259, -88, -424, -709, -908, -997, -965, -816, -568, -251, 96, 431, 715,
    911, 997, 962, 811, 561, 243, -104, -439, -720, -915, -998, -960, -806, -554, -235, 113, 447, 726, 918, 998,
    958, 801, 547, 227, -121, -454, -732, -921, -999, -955, -796, -540, -219, 129, 461, 738, 924, 999, 953, 791,
    533, 210, -138, -469, -743, -928, -999, -950, -786, -526, -202, 146, 476, 749, 931, 1000, 947, 780, 519, 194,
    -154, -484, -755, -934, -1000, -945, -775, -511, -186, 163, 491, 760, 937, 1000, 942, 770, 504, 177, -171, -498,
    -765, -940, -1000, -939, -764, -497, -169, 179, 506, 771, 943, 1000, 936, 759, 489, 161, -187, -513, -776, -945,
    -1000, -933, -753, -482, -152, 196, 520, 781, 948, 1000, 930, 748, 475, 144, -204, -527, -787, -951, -999, -927,
    -742, -467, -136, 212, 534, 792, 953, 999, 924, 736, 460, 127, -220, -541, -797, -956, -999, -921, -731, -452,
    -119, 229, 548, 802, 958, 998, 917, 725, 445, 111, -237, -556, -807, -961, -998, -914, -719, -437, -102, 245,
    562, 812, 963, 997, 910, 713, 430, 94, -253, -569, -817, -965, -996, -907, -707, -422, -86, 261, 576, 822,
    967, 996, 903, 701, 415, 77, -269, -583, -826, -969, -995, -900, -695, -407, -69, 277, 590, 831, 971, 994,
    896, 689, 399, 61, -285, -597, -836, -973, -993, -892, -683, -391, -52, 293, 603, 840, 975, 992, 888, 677,
    384, 44, -301, -610, -845, -977, -991, -884, -671, -376, -35, 309, 617, 849, 979, 990, 881, 665, 368, 27,
    -317, -623, -854, -981, -988, -877, -658, -360, -19, 325, 630, 858, 982, 987, 872, 652, 352, 10, -333, -636,
    -862, -984, -986, -868, -646, -345, -2, 341, 643, 867, 985, 984, 864, 639, 337, -7, -349, -649, -871, -987,
    -983, -860, -633, -329, 15, 357, 656, 875, 988, 981, 855, 626, 321, -23, -365, -662, -879, -989, -980, -851,
    -619, -313, 32, 373, 668, 883, 990, 978, 847, 613, 305, -40, -380, -675, -887, -991, -976, -842, -606, -297,
    49, 388, 681, 891, 993, 974, 838, 600, 289, -57, -396, -687, -894, -994, -972, -833, -593, -281, 65, 404,
    693, 898, 994, 970, 828, 586, 273, -74, -411, -699, -902, -995, -968, -824, -579, -264, 82, 419, 705, 905,
    996, 966, 819, 572, 256, -91, -427, -711, -909, -997, -964, -814, -565, -248, 99, 434, 717, 912, 997, 962,
    809, 558, 240, -107, -442, -723, -916, -998, -959, -804, -551, -232, 116, 449, 728, 919, 998, 957, 799, 544,
    224, -124, -457, -734, -922, -999, -954, -794, -537, -216, 132, 464, 740, 926, 999, 952, 789, 530, 207, -141,
    -472, -745, -929, -1000, -949, -784, -523, -199, 149, 479, 751, 932, 1000, 946, 778, 516, 191, -157, -486, -757,
    -935, -1000, -944, -773, -509, -183, 166, 494, 762, 938, 1000, 941, 768, 501, 174, -174, -501, -767, -941, -1000,
    -938, -762, -494, -166, 182, 508, 773, 944, 1000, 935, 757, 487, 158, -190, -516, -778, -946, -1000, -932, -751,
    -479, -149, 199, 523, 783, 949, 1000, 929, 746, 472, 141, -207, -530, -789, -952, -999, -926, -740, -465, -133,
    215, 537, 794, 954, 999, 923, 734, 457, 124, -223, -544, -799, -957, -999, -919, -729, -450, -116, 232, 551,
    804, 959, 998, 916, 723, 442, 108, -240, -558, -809, -961, -997, -913, -717, -435, -99, 248, 565, 814, 964,
    997, 909, 711, 427, 91, -256, -572, -819, -966, -996, -906, -705, -419, -83, 264, 579, 823, 968, 995, 902,
    699, 412, 74, -272, -586, -828, -970, -995, -898, -693, -404, -66, 280, 592, 833, 972, 994, 895, 687, 396,
    57, -288, -599, -837, -974, -993, -891, -681, -389, -49, 296, 606, 842, 976, 992, 887, 675, 381, 41, -304,
    -613, -846, -978, -990, -883, -669, -373, -32, 312, 619, 851, 979, 989, 879, 662, 365, 24, -320, -626, -855,
    -981, -988, -875, -656, -357, -15, 328, 632, 860, 983, 987, 871, 650, 349, 7, -336, -639, -864, -984, -985,
    -867, -643, -342, 1, 344, 645, 868, 986, 984, 863, 637, 334, -10, -352, -652, -872, -987, -982, -858, -630,
    -326, 18, 360, 658, 876, 988, 981, 854, 624, 318, -27, -368, -664, -880, -990, -979, -849, -617, -310, 35,
    376, 671, 884, 991, 977, 845, 610, 302, -43, -383, -677, -888, -992, -975, -840, -604, -294, 52, 391, 683,
    892, 993, 973, 836, 597, 286, -60, -399, -689, -896, -994, -971, -831, -590, -278, 69, 407, 695, 900, 995,
    969, 827, 583, 270, -77, -414, -701, -903, -996, -967, -822, -577, -261, 85, 422, 707, 907, 996, 965, 817,
    570, 253, -94, -429, -713, -910, -997, -963, -812, -563, -245, 102, 437, 719, 914, 998, 961, 807, 556, 237,
    -110, -445, -725, -917, -998, -958, -802, -549, -229, 119, 452, 731, 920, 999, 956, 797, 542, 221, -127, -460,
    -736, -924, -999, -953, -792, -535, -212, 135, 467, 742, 927, 999, 951, 787, 528, 204, -144, -474, -748, -930,
    -1000, -948, -782, -520, -196, 152, 482, 753, 933, 1000, 945, 776, 513, 188, -160, -489, -759, -936, -1000, -943,
    -771, -506, -179, 169, 496, 764, 939, 1000, 940, 766, 499, 171, -177, -504, -769, -942, -1000, -937, -760, -491,
    -163, 185, 511, 775, 945, 1000, 934, 755, 484, 155, -194, -518, -780, -947, -1000, -931, -749, -477, -146, 202,
    525, 785, 950, 999, 928, 744, 469, 138, -210, -533, -790, -953, -999, -925, -738, -462, -130, 218, 540, 796,
    955, 999, 921, 732, 454, 121, -226, -547, -801, -958, -998, -918, -727, -447, -113, 235, 554, 806, 960, 998,
    915, 721, 439, 105, -243, -561, -811, -962, -997, -911, -715, -432, -96, 251, 568, 816, 965, 997, 908, 709,
    424, 88, -259, -575, -820, -967, -996, -904, -703, -416, -80, 267, 581, 825, 969, 995, 901, 697, 409, 71,
    -275, -588, -830, -971, -994, -897, -691, -401, -63, 283, 595, 835, 973, 993, 893, 685, 393, 54, -291, -602,
    -839, -975, -992, -889, -679, -386, -46, 299, 608, 844, 977, 991, 885, 672, 378, 38, -307, -615, -848, -978,
    -990, -882, -666, -370, -29, 315, 622, 853, 980, 989, 878, 660, 362, 21, -323, -628, -857, -982, -987, -873,
    -654, -354, -12, 331, 635, 861, 983, 986, 869, 647, 347, 4, -339, -641, -865, -985, -985, -865, -641, -339,
    4, 347, 648, 870, 986, 983, 861, 634, 331, -13, -355, -654, -874, -988, -982, -857, -628, -323, 21, 363,
    660, 878, 989, 980, 852, 621, 315, -30, -371, -667, -882, -990, -978, -848, -615, -307, 38, 378, 673, 886,
    991, 976, 843, 608, 299, -47, -386, -679, -890, -992, -975, -839, -601, -291, 55, 394, 685, 893, 993, 973,
    834, 595, 283, -63, -402, -691, -897, -994, -971, -830, -588, -275, 72, 409, 697, 901, 995, 969, 825, 581,
    267, -80, -417, -703, -904, -996, -967, -820, -574, -258, 88, 425, 709, 908, 997, 964, 815, 567, 250, -97,
    -432, -715, -912, -997, -962, -810, -560, -242, 105, 440, 721, 915, 998, 960, 805, 553, 234, -114, -447, -727,
    -918, -998, -957, -800, -546, -226, 122, 455, 733, 922, 999, 955, 795, 539, 218, -130, -462, -738, -925, -999,
    -952, -790, -532, -209, 139, 470, 744, 928, 999, 950, 785, 525, 201, -147, -477, -750, -931, -1000, -947, -780,
    -518, -193, 155, 485, 755, 934, 1000, 944, 774, 511, 185, -163, -492, -761, -937, -1000, -942, -769, -503, -176,
    172, 499, 766, 940, 1000, 939, 764, 496, 168, -180, -506, -771, -943, -1000, -936, -758, -489, -160, 188, 514,
    777, 946, 1000, 933, 753, 481, 152, -197, -521, -782, -948, -1000, -930, -747, -474, -143, 205, 528, 787, 951,
    999, 927, 742, 467, 135, -213, -535, -792, -954, -999, -923, -736, -459, -127, 221, 542, 797, 956, 999, 920,
    730, 452, 118, -229, -549, -803, -958, -998, -917, -724, -444, -110, 238, 556, 807, 961, 998, 913, 719, 436,
    102, -246, -563, -812, -963, -997, -910, -713, -429, -93, 254, 570, 817, 965, 996, 906, 707, 421, 85, -262,
    -577, -822, -967, -996, -903, -701, -414, -76, 270, 584, 827, 970, 995, 899, 695, 406, 68, -278, -591, -832,
    -972, -994, -896, -689, -398, -60, 286, 597, 836, 974, 993, 892, 683, 391, 51, -294, -604, -841, -975, -992,
    -888, -676, -383, -43, 302, 611, 845, 977, 991, 884, 670, 375, 34, -310, -617, -850, -979, -990, -880, -664,
    -367, -26, 318, 624, 854, 981, 988, 876, 658, 359, 18, -326, -631, -859, -982, -987, -872, -651, -352, -9,
    334, 637, 863, 984, 986, 868, 645, 344, 1, -342, -644, -867, -985, -984, -864, -638, -336, 8, 350, 650,
    871, 987, 983, 859, 632, 328, -16, -358, -656, -875, -988, -981, -855, -625, -320, 24, 366, 663, 879, 989,
    979, 851, 619, 312, -33, -374, -669, -883, -990, -978, -846, -612, -304, 41, 381, 675, 887, 992, 976, 842,
    605, 296, -50, -389, -681, -891, -993, -974, -837, -599, -288, 58, 397, 687, 895, 994, 972, 832, 592, 280,
    -66, -405, -694, -899, -995, -970, -828, -585, -272, 75, 412, 700, 902, 995, 968, 823, 578, 264, -83, -420,
    -706, -906, -996, -966, -818, -571, -255, 92, 427, 712, 909, 997, 964, 813, 565, 247, -100, -435, -717, -913,
    -998, -961, -808, -558, -239, 108, 443, 723, 916, 998, 959, 803, 551, 231, -117, -450, -729, -920, -999, -956,
    -798, -544, -223, 125, 458, 735, 923, 999, 954, 793, 537, 215, -133, -465, -740, -926, -999, -951, -788, -529,
    -206, 142, 472, 746, 929, 1000, 949, 783, 522, 198, -150, -480, -752, -932, -1000, -946, -778, -515, -190, 158,
    487, 757, 935, 1000, 943, 772, 508, 182, -167, -495, -763, -938, -1000, -941, -767, -501, -173, 175, 502, 768,
    941, 1000, 938, 762, 493, 165, -183, -509, -773, -944, -1000, -935, -756, -486, -157, 191, 516, 779, 947, 1000,
    932, 751, 479, 148, -200, -524, -784, -949, -1000, -929, -745, -471, -140, 208, 531, 789, 952, 999, 925, 739,
    464, 132, -216, -538, -794, -954, -999, -922, -734, -456, -123, 224, 545, 799, 957, 998, 919, 728, 449, 115,
    -232, -552, -804, -959, -998, -916, -722, -441, -107, 241, 559, 809, 962, 997, 912, 716, 434, 98, -249, -566,
    -814, -964, -997, -909, -710, -426, -90, 257, 573, 819, 966, 996, 905, 705, 418, 82, -265, -580, -824, -968,
    -995, -902, -699, -411, -73, 273, 586, 829, 970, 994, 898, 693, 403, 65, -281, -593, -833, -972, -993, -894,
    -686, -395, -57, 289, 600, 838, 974, 992, 890, 680, 388, 48, -297, -607, -842, -976, -991, -887, -674, -380,
    -40, 305, 613, 847, 978, 990, 883, 668, 372, 31, -313, -620, -851, -980, -989, -879, -662, -364, -23, 321,
    627, 856, 981, 988, 875, 655, 356, 15, -329, -633, -860, -983, -986, -870, -649, -349, -6, 337, 640, 864,
    984, 985, 866, 642, 341, -2, -345, -646, -869, -986, -984, -862, -636, -333, 11, 353, 652, 873, 987, 982,
    858, 629, 325, -19, -361, -659, -877, -989, -980, -853, -623, -317, 28, 369, 665, 881, 990, 979, 849, 616,
    309, -36, -376, -671, -885, -991, -977, -845, -610, -301, 44, 384, 677, 889, 992, 975, 840, 603, 293, -53,
    -392, -684, -892, -993, -973, -835, -596, -285, 61, 400, 690, 896, 994, 971, 831, 590, 277, -69, -407, -696,
    -900, -995, -969, -826, -583, -269, 78, 415, 702, 904, 996, 967, 821, 576, 261, -86, -423, -708, -907, -996,
    -965, -816, -569, -252, 95, 430, 714, 911, 997, 963, 812, 562, 244, -103, -438, -720, -914, -998, -960, -807,
    -555, -236, 111, 445, 725, 917, 998, 958, 802, 548, 228, -120, -453, -731, -921, -999, -956, -797, -541, -220,
    128, 460, 737, 924, 999, 953, 791, 534, 212, -136, -468, -743, -927, -999, -950, -786, -527, -203, 145, 475,
    748, 930, 1000, 948, 781, 520, 195, -153, -483, -754, -933, -1000, -945, -776, -512, -187, 161, 490, 759, 936,
    1000, 942, 770, 505, 179, -170, -497, -765, -939, -1000, -939, -765, -498, -170, 178, 505, 770, 942, 1000, 937
>>

SinTab == <<
    0, 343, 644, 867, 985, 984, 863, 638, 335, -8, -351, -651, -872, -987, -982, -859, -631, -327, 17, 359,
    657, 876, 988, 981, 855, 625, 319, -25, -366, -663, -880, -989, -979, -850, -618, -311, 34, 374, 670, 884,
    991, 977, 846, 612, 303, -42, -382, -676, -888, -992, -976, -841, -605, -295, 50, 390, 682, 891, 993, 974,
    837, 598, 287, -59, -398, -688, -895, -994, -972, -832, -591, -279, 67, 405, 694, 899, 995, 970, 827, 585,
    271, -76, -413, -700, -903, -995, -968, -823, -578, -263, 84, 421, 706, 906, 996, 966, 818, 571, 255, -92,
    -428, -712, -910, -997, -963, -813, -564, -247, 101, 436, 718, 913, 998, 961, 808, 557, 238, -109, -443, -724,
    -917, -998, -959, -803, -550, -230, 117, 451, 730, 920, 999, 956, 798, 543, 222, -126, -458, -735, -923, -999,
    -954, -793, -536, -214, 134, 466, 741, 926, 999, 951, 788, 529, 206, -142, -473, -747, -929, -1000, -949, -782,
    -522, -197, 151, 481, 752, 933, 1000, 946, 777, 514, 189, -159, -488, -758, -936, -1000, -943, -772, -507, -181,
    167, 495, 763, 938, 1000, 940, 767, 500, 173, -176, -503, -769, -941, -1000, -937, -761, -493, -164, 184, 510,
    774, 944, 1000, 934, 756, 485, 156, -192, -517, -779, -947, -1000, -931, -750, -478, -148, 200, 524, 784, 950,
    1000, 928, 745, 470, 139, -209, -531, -790, -952, -999, -925, -739, -463, -131, 217, 538, 795, 955, 999, 922,
    733, 456, 123, -225, -546, -800, -957, -998, -919, -727, -448, -114, 233, 553, 805, 960, 998, 915, 722, 441,
    106, -241, -560, -810, -962, -997, -912, -716, -433, -98, 250, 566, 815, 964, 997, 908, 710, 425, 89, -258,
    -573, -820, -966, -996, -905, -704, -418, -81, 266, 580, 824, 968, 995, 901, 698, 410, 72, -274, -587, -829,
    -971, -994, -898, -692, -402, -64, 282, 594, 834, 973, 993, 894, 686, 395, 56, -290, -601, -838, -974, -992,
    -890, -680, -387, -47, 298, 607, 843, 976, 991, 886, 673, 379, 39, -306, -614, -847, -978, -990, -882, -667,
    -371, -31, 314, 621, 852, 980, 989, 878, 661, 364, 22, -322, -627, -856, -981, -988, -874, -655, -356, -14,
    330, 634, 861, 983, 986, 870, 648, 348, 5, -338, -640, -865, -985, -985, -866, -642, -340, 3, 346, 647,
    869, 986, 983, 862, 635, 332, -12, -354, -653, -873, -987, -982, -857, -629, -324, 20, 362, 659, 877, 989,
    980, 853, 622, 316, -28, -369, -666, -881, -990, -979, -849, -616, -308, 37, 377, 672, 885, 991, 977, 844,
    609, 300, -45, -385, -678, -889, -992, -975, -840, -602, -292, 54, 393, 684, 893, 993, 973, 835, 596, 284,
    -62, -400, -690, -897, -994, -971, -830, -589, -276, 70, 408, 696, 900, 995, 969, 826, 582, 268, -79, -416,
    -702, -904, -996, -967, -821, -575, -260, 87, 423, 708, 907, 997, 965, 816, 568, 252, -95, -431, -714, -911,
    -997, -962, -811, -561, -244, 104, 439, 720, 914, 998, 960, 806, 554, 235, -112, -446, -726, -918, -998, -958,
    -801, -547, -227, 121, 454, 732, 921, 999, 955, 796, 540, 219, -129, -461, -737, -924, -999, -953, -791, -533,
    -211, 137, 469, 743, 927, 999, 950, 786, 526, 203, -146, -476, -749, -931, -1000, -948, -781, -519, -194, 154,
    483, 754, 934, 1000, 945, 775, 512, 186, -162, -491, -760, -937, -1000, -942, -770, -504, -178, 170, 498, 765,
    940, 1000, 939, 765, 497, 170, -179, -505, -771, -942, -1000, -936, -759, -490, -161, 187, 512, 776, 945, 1000,
    933, 754, 483, 153, -195, -520, -781, -948, -1000, -930, -748, -475, -145, 203, 527, 786, 951, 999, 927, 742,
    468, 136, -212, -534, -792, -953, -999, -924, -737, -460, -128, 220, 541, 797, 956, 999, 921, 731, 453, 120,
    -228, -548, -802, -958, -998, -917, -725, -445, -111, 236, 555, 807, 960, 998, 914, 719, 438, 103, -244, -562,
    -812, -963, -997, -911, -714, -430, -95, 253, 569, 817, 965, 996, 907, 708, 423, 86, -261, -576, -821, -967,
    -996, -903, -702, -415, -78, 269, 583, 826, 969, 995, 900, 696, 407, 69, -277, -590, -831, -971, -994, -896,
    -690, -400, -61, 285, 596, 835, 973, 993, 892, 684, 392, 53, -293, -603, -840, -975, -992, -889, -677, -384,
    -44, 301, 610, 845, 977, 991, 885, 671, 376, 36, -309, -616, -849, -979, -990, -881, -665, -369, -27, 317,
    623, 853, 980, 989, 877, 659, 361, 19, -325, -630, -858, -982, -987, -873, -652, -353, -11, 333, 636, 862,
    984, 986, 869, 646, 345, 2, -341, -643, -866, -985, -984, -864, -639, -337, 6, 349, 649, 870, 986, 983,
    860, 633, 329, -15, -357, -655, -875, -988, -981, -856, -626, -321, 23, 364, 662, 879, 989, 980, 851, 620,
    313, -31, -372, -668, -883, -990, -978, -847, -613, -305, 40, 380, 674, 887, 991, 976, 842, 607, 297, -48,
    -388, -680, -890, -993, -974, -838, -600, -289, 57, 396, 686, 894, 993, 972, 833, 593, 281, -65, -403, -693,
    -898, -994, -970, -829, -586, -273, 73, 411, 699, 902, 995, 968, 824, 580, 265, -82, -419, -705, -905, -996,
    -966, -819, -573, -257, 90, 426, 711, 909, 997, 964, 814, 566, 249, -99, -434, -716, -912, -997, -962, -809,
    -559, -241, 107, 441, 722, 916, 998, 959, 804, 552, 232, -115, -449, -728, -919, -998, -957, -799, -545, -224,
    124, 456, 734, 922, 999, 954, 794, 538, 216, -132, -464, -740, -925, -999, -952, -789, -531, -208, 140, 471,
    745, 929, 1000, 949, 784, 523, 200, -149, -479, -751, -932, -1000, -947, -779, -516, -191, 157, 486, 756, 935,
    1000, 944, 773, 509, 183, -165, -493, -762, -938, -1000, -941, -768, -502, -175, 173, 501, 767, 941, 1000, 938,
    763, 494, 166, -182, -508, -773, -943, -1000, -935, -757, -487, -158, 190, 515, 778, 946, 1000, 932, 752, 480,
    150, -198, -522, -783, -949, -1000, -929, -746, -472, -142, 206, 529, 788, 951, 999, 926, 740, 465, 133, -215,
    -537, -793, -954, -999, -923, -735, -458, -125, 223, 544, 799, 957, 999, 919, 729, 450, 117, -231, -551, -804,
    -959, -998, -916, -723, -442, -108, 239, 558, 809, 961, 997, 913, 717, 435, 100, -247, -565, -813, -964, -997,
    -909, -711, -427, -91, 256, 572, 818, 966, 996, 906, 706, 420, 83, -264, -578, -823, -968, -995, -902, -700,
    -412, -75, 272, 585, 828, 970, 995, 899, 694, 404, 66, -280, -592, -833, -972, -994, -895, -687, -397, -58,
    288, 599, 837, 974, 993, 891, 681, 389, 50, -296, -606, -842, -976, -992, -887, -675, -381, -41, 304, 612,
    846, 978, 990, 883, 669, 373, 33, -312, -619, -851, -979, -989, -879, -663, -366, -24, 320, 625, 855, 981,
    988, 875, 656, 358, 16, -328, -632, -859, -983, -987, -871, -650, -350, -7, 336, 638, 864, 984, 985, 867,
    644, 342, -1, -344, -645, -868, -986, -984, -863, -637, -334, 9, 352, 651, 872, 987, 982, 858, 631, 326,
    -18, -360, -658, -876, -988, -981, -854, -624, -318, 26, 367, 664, 880, 990, 979, 850, 617, 310, -35, -375,
    -670, -884, -991, -977, -845, -611, -302, 43, 383, 676, 888, 992, 975, 841, 604, 294, -51, -391, -683, -892,
    -993, -974, -836, -597, -286, 60, 398, 689, 896, 994, 972, 832, 591, 278, -68, -406, -695, -899, -995, -970,
    -827, -584, -270, 77, 414, 701, 903, 996, 967, 822, 577, 262, -85, -421, -707, -907, -996, -965, -817, -570,
    -254, 93, 429, 713, 910, 997, 963, 812, 563, 246, -102, -437, -719, -914, -998, -961, -807, -556, -237, 110,
    444, 724, 917, 998, 958, 802, 549, 229, -118, -452, -730, -920, -999, -956, -797, -542, -221, 127, 459, 736,
    923, 999, 953, 792, 535, 213, -135, -467, -742, -927, -999, -951, -787, -528, -205, 143, 474, 747, 930, 1000,
    948, 782, 521, 196, -152, -481, -753, -933, -1000, -946, -777, -514, -188, 160, 489, 758, 936, 1000, 943, 771,
    506, 180, -168, -496, -764, -939, -1000, -940, -766, -499, -172, 177, 503, 769, 942, 1000, 937, 761, 492, 163,
    -185, -511, -774, -944, -1000, -934, -755, -484, -155, 193, 518, 780, 947, 1000, 931, 749, 477, 147, -201, -525,
    -785, -950, -999, -928, -744, -470, -138, 210, 532, 790, 952, 999, 925, 738, 462, 130, -218, -539, -795, -955,
    -999, -922, -733, -455, -122, 226, 546, 800, 957, 998, 918, 727, 447, 113, -234, -553, -805, -960, -998, -915,
    -721, -440, -105, 242, 560, 810, 962, 997, 911, 715, 432, 97, -250, -567, -815, -964, -997, -908, -709, -425,
    -88, 259, 574, 820, 967, 996, 904, 703, 417, 80, -267, -581, -825, -969, -995, -901, -697, -409, -72, 275,
    588, 830, 971, 994, 897, 691, 402, 63, -283, -595, -834, -973, -993, -893, -685, -394, -55, 291, 601, 839,
    975, 992, 890, 679, 386, 46, -299, -608, -843, -977, -991, -886, -673, -378, -38, 307, 615, 848, 978, 990,
    882, 667, 371, 30, -315, -621, -852, -980, -989, -878, -660, -363, -21, 323, 628, 857, 982, 988, 874, 654,
    355, 13, -331, -634, -861, -983, -986, -870, -648, -347, -4, 339, 641, 865, 985, 985, 865, 641, 339, -4,
    -347, -647, -869, -986, -983, -861, -635, -331, 12, 355, 654, 874, 987, 982, 857, 628, 323, -21, -362, -660,
    -878, -989, -980, -853, -622, -315, 29, 370, 666, 882, 990, 978, 848, 615, 307, -38, -378, -673, -886, -991,
    -977, -844, -608, -299, 46, 386, 679, 889, 992, 975, 839, 602, 291, -54, -394, -685, -893, -993, -973, -834,
    -595, -283, 63, 401, 691, 897, 994, 971, 830, 588, 275, -71, -409, -697, -901, -995, -969, -825, -581, -267,
    80, 417, 703, 904, 996, 967, 820, 574, 259, -88, -424, -709, -908, -997, -964, -815, -568, -251, 96, 432,
    715, 911, 997, 962, 811, 561, 243, -105, -439, -721, -915, -998, -960, -806, -554, -234, 113, 447, 727, 918,
    998, 958, 801, 547, 226, -121, -454, -732, -921, -999, -955, -796, -540, -218, 130, 462, 738, 925, 999, 953,
    790, 532, 210, -138, -469, -744, -928, -999, -950, -785, -525, -202, 146, 477, 749, 931, 1000, 947, 780, 518,
    193, -155, -484, -755, -934, -1000, -945, -775, -511, -185, 163, 491, 760, 937, 1000, 942, 769, 504, 177, -171,
    -499, -766, -940, -1000, -939, -764, -496, -169, 180, 506, 771, 943, 1000, 936, 759, 489, 160, -188, -513, -776,
    -945, -1000, -933, -753, -482, -152, 196, 520, 782, 948, 1000, 930, 747, 474, 144, -204, -528, -787, -951, -999,
    -927, -742, -467, -135, 213, 535, 792, 953, 999, 924, 736, 459, 127, -221, -542, -797, -956, -999, -920, -730,
    -452, -119, 229, 549, 802, 958, 998, 917, 725, 444, 110, -237, -556, -807, -961, -998, -914, -719, -437, -102,
    245, 563, 812, 963, 997, 910, 713, 429, 94, -253, -570, -817, -965, -996, -907, -707, -422, -85, 262, 577,
    822, 967, 996, 903, 701, 414, 77, -270, -584, -827, -969, -995, -899, -695, -406, -68, 278, 590, 831, 971,
    994, 896, 689, 399, 60, -286, -597, -836, -973, -993, -892, -683, -391, -52, 294, 604, 841, 975, 992, 888,
    677, 383, 43, -302, -610, -845, -977, -991, -884, -671, -375, -35, 310, 617, 850, 979, 990, 880, 664, 368,
    26, -318, -624, -854, -981, -988, -876, -658, -360, -18, 326, 630, 858, 982, 987, 872, 652, 352, 10, -334,
    -637, -863, -984, -986, -868, -645, -344, -1, 342, 643, 867, 985, 984, 864, 639, 336, -7, -350, -650, -871,
    -987, -983, -860, -632, -328, 16, 357, 656, 875, 988, 981, 855, 626, 320, -24, -365, -662, -879, -989, -979,
    -851, -619, -312, 32, 373, 669, 883, 990, 978, 846, 613, 304, -41, -381, -675, -887, -992, -976, -842, -606,
    -296, 49, 389, 681, 891, 993, 974, 837, 599, 288, -58, -396, -687, -895, -994, -972, -833, -592, -280, 66,
    404, 693, 898, 995, 970, 828, 586, 272, -74, -412, -699, -902, -995, -968, -823, -579, -264, 83, 419, 705,
    906, 996, 966, 818, 572, 256, -91, -427, -711, -909, -997, -964, -814, -565, -248, 99, 435, 717, 913, 997,
    961, 809, 558, 240, -108, -442, -723, -916, -998, -959, -804, -551, -231, 116, 450, 729, 919, 999, 957, 799,
    544, 223, -125, -457, -734, -923, -999, -954, -794, -537, -215, 133, 465, 740, 926, 999, 952, 788, 530, 207,
    -141, -472, -746, -929, -1000, -949, -783, -523, -199, 149, 479, 751, 932, 1000, 946, 778, 515, 190, -158, -487,
    -757, -935, -1000, -944, -773, -508, -182, 166, 494, 762, 938, 1000, 941, 767, 501, 174, -174, -501, -768, -941,
    -1000, -938, -762, -494, -166, 183, 509, 773, 944, 1000, 935, 756, 486, 157, -191, -516, -778, -946, -1000, -932,
    -751, -479, -149, 199, 523, 784, 949, 1000, 929, 745, 472, 141, -207, -530, -789, -952, -999, -926, -740, -464,
    -132, 216, 537, 794, 954, 999, 922, 734, 457, 124, -224, -544, -799, -957, -998, -919, -728, -449, -116, 232,
    551, 804, 959, 998, 916, 723, 442, 107, -240, -558, -809, -962, -997, -912, -717, -434, -99, 248, 565, 814,
    964, 997, 909, 711, 427, 91, -256, -572, -819, -966, -996, -905, -705, -419, -82, 265, 579, 824, 968, 995,
    902, 699, 411, 74, -273, -586, -828, -970, -994, -898, -693, -404, -65, 281, 593, 833, 972, 994, 894, 687,
    396, 57, -289, -600, -838, -974, -993, -891, -681, -388, -49, 297, 606, 842, 976, 991, 887, 674, 380, 40,
    -305, -613, -847, -978, -990, -883, -668, -373, -32, 313, 620, 851, 980, 989, 879, 662, 365, 23, -321, -626,
    -856, -981, -988, -875, -656, -357, -15, 329, 633, 860, 983, 987, 871, 649, 349, 7, -337, -639, -864, -984,
    -985, -867, -643, -341, 2, 345, 646, 868, 986, 984, 862, 636, 333, -10, -353, -652, -872, -987, -982, -858,
    -630, -325, 19, 360, 658, 877, 988, 980, 854, 623, 317, -27, -368, -665, -881, -990, -979, -849, -617, -309,
    35, 376, 671, 885, 991, 977, 845, 610, 301, -44, -384, -677, -888, -992, -975, -840, -603, -293, 52, 392,
    683, 892, 993, 973, 836, 597, 285, -61, -399, -689, -896, -994, -971, -831, -590, -277, 69, 407, 695, 900,
    995, 969, 826, 583, 269, -77, -415, -702, -903, -996, -967, -822, -576, -261, 86, 422, 707, 907, 996, 965,
    817, 569, 253, -94, -430, -713, -910, -997, -963, -812, -562, -245, 103, 437, 719, 914, 998, 961, 807, 555,
    237, -111, -445, -725, -917, -998, -958, -802, -548, -228, 119, 452, 731, 921, 999, 956, 797, 541, 220, -128,
    -460, -737, -924, -999, -953, -792, -534, -212, 136, 467, 742, 927, 999, 951, 787, 527, 204, -144, -475, -748,
    -930, -1000, -948, -781, -520, -196, 153, 482, 753, 933, 1000, 945, 776, 513, 187, -161, -490, -759, -936, -1000,
    -942, -771, -506, -179, 169, 497, 764, 939, 1000, 940, 765, 498, 171, -177, -504, -770, -942, -1000, -937, -760,
    -491, -162, 186, 511, 775, 945, 1000, 934, 754, 484, 154, -194, -519, -780, -947, -1000, -931, -749, -476, -146,
    202, 526, 786, 950, 999, 928, 743, 469, 138, -210, -533, -791, -953, -999, -924, -738, -461, -129, 219, 540,
    796, 955, 999, 921, 732, 454, 121, -227, -547, -801, -958, -998, -918, -726, -446, -113, 235, 554, 806, 960,
    998, 915, 720, 439, 104, -243, -561, -811, -962, -997, -911, -715, -431, -96, 251, 568, 816, 965, 997, 908,
    709, 424, 87, -259, -575, -821, -967, -996, -904, -703, -416, -79, 268, 582, 825, 969, 995, 900, 697, 408,
    71, -276, -589, -830, -971, -994, -897, -691, -401, -62, 284, 595, 835, 973, 993, 893, 684, 393, 54, -292,
    -602, -839, -975, -992, -889, -678, -385, -45, 300, 609, 844, 977, 991, 885, 672, 377, 37, -308, -615, -848,
    -978, -990, -881, -666, -370, -29, 316, 622, 853, 980, 989, 877, 660, 362, 20, -324, -629, -857, -982, -987,
    -873, -653, -354, -12, 332, 635, 861, 983, 986, 869, 647, 346, 3, -340, -642, -866, -985, -985, -865, -640,
    -338, 5, 348, 648, 870, 986, 983, 861, 634, 330, -13, -355, -654, -874, -988, -982, -856, -627, -322, 22,
    363, 661, 878, 989, 980, 852, 621, 314, -30, -371, -667, -882, -990, -978, -848, -614, -306, 39, 379, 673,
    886, 991, 976, 843, 608, 298, -47, -387, -679, -890, -992, -975, -839, -601, -290, 55, 394, 686, 894, 993,
    973, 834, 594, 282, -64, -402, -692, -897, -994, -971, -829, -587, -274, 72, 410, 698, 901, 995, 969, 825,
    581, 266, -81, -417, -704, -905, -996, -966, -820, -574, -258, 89, 425, 710, 908, 997, 964, 815, 567, 250,
    -97, -433, -716, -912, -997, -962, -810, -560, -242, 106, 440, 721, 915, 998, 960, 805, 553, 234, -114, -448,
    -727, -918, -998, -957, -800, -546, -225, 122, 455, 733, 922, 999, 955, 795, 539, 217, -131, -463, -739, -925,
    -999, -952, -790, -532, -209, 139, 470, 744, 928, 1000, 950, 785, 525, 201, -147, -478, -750, -931, -1000, -947,
    -779, -517, -193, 156, 485, 755, 934, 1000, 944, 774, 510, 184, -164, -492, -761, -937, -1000, -941, -769, -503,
    -176, 172, 500, 766, 940, 1000, 939, 763, 496, 168, -181, -507, -772, -943, -1000, -936, -758, -488, -159, 189,
    514, 777, 946, 1000, 933, 752, 481, 151, -197, -521, -782, -948, -1000, -930, -747, -474, -143, 205, 528, 787,
    951, 999, 926, 741, 466, 134, -213, -536, -793, -954, -999, -923, -736, -459, -126, 222, 543, 798, 956, 999,
    920, 730, 451, 118, -230, -550, -803, -959, -998, -917, -724, -444, -109, 238, 557, 808, 961, 998, 913, 718,
    436, 101, -246, -564, -813, -963, -997, -910, -712, -429, -93, 254, 571, 818, 965, 996, 906, 706, 421, 84,
    -262, -577, -822, -968, -996, -903, -700, -413, -76, 271, 584, 827, 970, 995, 899, 694, 406, 68, -279, -591,
    -832, -972, -994, -895, -688, -398, -59, 287, 598, 836, 974, 993, 892, 682, 390, 51, -295, -605, -841, -976,
    -992, -888, -676, -382, -42, 303, 611, 846, 977, 991, 884, 670, 375, 34, -311, -618, -850, -979, -989, -880,
    -664, -367, -26, 319, 624, 854, 981, 988, 876, 657, 359, 17, -327, -631, -859, -982, -987, -872, -651, -351,
    -9, 335, 637, 863, 984, 986, 868, 644, 343, 0, -343, -644, -867, -985, -984, -863, -638, -335, 8, 350
>>

\* Math.pow(v, 1.1) and Math.pow(v, 1.15) for v = 0 .. 100, times 1000
Pow110 == <<
  0, 1000, 2144, 3348, 4595, 5873, 7177, 8504, 9849, 11212,
  12589, 13981, 15385, 16801, 18228, 19665, 21112, 22568, 24033, 25505,
  26986, 28474, 29968, 31470, 32979, 34493, 36014, 37541, 39073, 40610,
  42153, 43702, 45255, 46813, 48376, 49943, 51515, 53091, 54672, 56256,
  57845, 59438, 61034, 62635, 64239, 65847, 67458, 69073, 70691, 72313,
  73938, 75566, 77198, 78832, 80470, 82111, 83754, 85401, 87050, 88703,
  90358, 92016, 93677, 95340, 97006, 98674, 100346, 102019, 103695, 105374,
  107055, 108739, 110425, 112113, 113803, 115496, 117191, 118888, 120588, 122290,
  123994, 125699, 127408, 129118, 130830, 132544, 134261, 135979, 137699, 139421,
  141145, 142871, 144599, 146329, 148061, 149795, 151530, 153267, 155006, 156747,
  158489
>>
Pow115 == <<
  0, 1000, 2219, 3537, 4925, 6365, 7850, 9373, 10928, 12514,
  14125, 15762, 17420, 19100, 20799, 22517, 24251, 26003, 27769, 29551,
  31346, 33155, 34977, 36812, 38658, 40516, 42386, 44266, 46156, 48057,
  49968, 51888, 53817, 55756, 57703, 59659, 61624, 63596, 65577, 67565,
  69562, 71565, 73576, 75594, 77619, 79652, 81690, 83736, 85788, 87847,
  89912, 91983, 94060, 96143, 98232, 100327, 102427, 104534, 106645, 108763,
  110885, 113013, 115146, 117285, 119428, 121577, 123730, 125888, 128052, 130220,
  132392, 134570, 136752, 138938, 141129, 143325, 145524, 147729, 149937, 152150,
  154367, 156588, 158813, 161042, 163276, 165513, 167754, 169999, 172248, 174501,
  176758, 179018, 181283, 183550, 185822, 188097, 190376, 192658, 194944, 197233,
  199526
>>

PowT(v, x) == IF v = "basic" THEN Pow110[x + 1] ELSE Pow115[x + 1]

\* ---------------------------------------------------------------- helpers
\* Math.round of a / b for b > 0 (halves round up)
RoundDiv(a, b) == (2 * a + b) \div (2 * b)

Abs(a) == IF a < 0 THEN -a ELSE a

RECURSIVE SqrtIter(_, _, _)
SqrtIter(n, lo, hi) ==
  IF lo >= hi THEN lo
  ELSE LET mid == (lo + hi + 1) \div 2
       IN IF mid * mid <= n THEN SqrtIter(n, mid, hi) ELSE SqrtIter(n, lo, mid - 1)

\* floor of the square root
Sqrt(n) == SqrtIter(n, 0, 46340)

\* Math.hypot(vx, vy) || 1
Hypot(vx, vy) ==
  LET h == Sqrt(vx * vx + vy * vy) IN IF h = 0 THEN Unit ELSE h

Max2(a, b) == IF a > b THEN a ELSE b
Min2(a, b) == IF a < b THEN a ELSE b

RECURSIVE SeqMax(_)
SeqMax(s) == IF Len(s) = 1 THEN Head(s) ELSE Max2(Head(s), SeqMax(Tail(s)))
RECURSIVE SeqMin(_)
SeqMin(s) == IF Len(s) = 1 THEN Head(s) ELSE Min2(Head(s), SeqMin(Tail(s)))

\* ------------------------------------------------------- input records
\* a record of the fetched JSON / of dataStore.executingUnits; the label is
\* represented by its glyph count (0 = empty string).  Besides the records
\* that pass the view's filter there is one record for each way of failing it.
ValidRecords == [len : LabelLengths, value : Weights, academic : {TRUE}]

RawRecords(v) ==
  ValidRecords
    \cup {[len |-> 1, value |-> 0, academic |-> TRUE]}
    \cup (IF v = "basic"
          THEN {[len |-> 0, value |-> 1, academic |-> TRUE]}
          ELSE {[len |-> 1, value |-> 1, academic |-> FALSE]})

RECURSIVE SeqsUpTo(_, _)
SeqsUpTo(S, n) ==
  IF n = 0 THEN {<<>>}
  ELSE LET shorter == SeqsUpTo(S, n - 1)
       IN shorter \cup {Append(s, x) : s \in {q \in shorter : Len(q) = n - 1}, x \in S}

DataSets(v) == SeqsUpTo(RawRecords(v), MaxItems)

\* faulty variant: the records mapped but not filtered
ItemsUnfiltered(v, d) ==
  [i \in 1..Len(d) |-> [text |-> d[i].len, value |-> d[i].value, src |-> i]]

\* .map(...).filter(...): the records that become items, src = input position
Items(v, d) ==
  LET mapped == [i \in 1..Len(d) |->
                   [text |-> d[i].len, value |-> d[i].value, src |-> i]]
      keep(i) == IF v = "basic"
                 THEN d[i].len > 0 /\ d[i].value > 0
                 ELSE d[i].academic /\ d[i].value > 0
      RECURSIVE Filter(_)
      Filter(i) == IF i > Len(d) THEN <<>>
                   ELSE IF keep(i) THEN <<mapped[i]>> \o Filter(i + 1)
                   ELSE Filter(i + 1)
  IN Filter(1)

\* ------------------------------------------------------- size assignment
Values(items) == [i \in 1..Len(items) |-> items[i].value]

\* faulty variant: the scale with its range reversed
sizeScaleReversed(v, lo, hi, x) ==
  LET d == PowT(v, hi) - PowT(v, lo)
      n == PowT(v, x) - PowT(v, lo)
  IN IF d = 0
     THEN RoundDiv(MinFontRange + MaxFontPx(v), 2)
     ELSE RoundDiv(MaxFontPx(v) * (d - n) + MinFontRange * n, d)

\* d3.scalePow().exponent(e).domain([lo, hi]).range([12, maxFont]) at x,
\* then Math.max(10, Math.round(.))
sizeScale(v, lo, hi, x) ==
  LET d == PowT(v, hi) - PowT(v, lo)
      n == PowT(v, x) - PowT(v, lo)
  IN IF d = 0
     THEN RoundDiv(MinFontRange + MaxFontPx(v), 2)
     ELSE RoundDiv(MinFontRange * (d - n) + MaxFontPx(v) * n, d)

DomainLo(v, items) == IF v = "basic" THEN 0 ELSE SeqMin(Values(items))
DomainHi(v, items) == SeqMax(Values(items))

AssignedSize(v, items, x) ==
  Max2(MinFont, sizeScale(v, DomainLo(v, items), DomainHi(v, items), x))

SizedWords(v, items) ==
  [i \in 1..Len(items) |->
     [text |-> items[i].text, size |-> AssignedSize(v, items, items[i].value),
      value |-> items[i].value, src |-> items[i].src]]

\* faulty variant: an insertion that puts a word before the words of its size
RECURSIVE InsertBeforeEqual(_, _)
InsertBeforeEqual(s, w) ==
  IF s = <<>> THEN <<w>>
  ELSE IF Head(s).size > w.size THEN <<Head(s)>> \o InsertBeforeEqual(Tail(s), w)
  ELSE <<w>> \o s

\* Array.prototype.sort((a, b) => b.size - a.size): stable, descending size
RECURSIVE InsertBySize(_, _)
InsertBySize(s, w) ==
  IF s = <<>> THEN <<w>>
  ELSE IF Head(s).size >= w.size THEN <<Head(s)>> \o InsertBySize(Tail(s), w)
  ELSE <<w>> \o s

RECURSIVE SortBySize(_)
SortBySize(s) ==
  IF s = <<>> THEN <<>>
  ELSE InsertBySize(SortBySize(SubSeq(s, 1, Len(s) - 1)), s[Len(s)])

SortedWords(v, d) == SortBySize(SizedWords(v, Items(v, d)))

\* ------------------------------------------------------------- geometry
\* getBBox() of the label at a font size: glyphs are fs wide, the line box
\* is 1.2 fs high
measure(text, fs) == [w |-> text * fs * Unit, h |-> (fs * Unit * 6) \div 5]

CanvasW(W) == W * Unit
CanvasH(v) == CanvasHeight(v) * Unit
centerX(W) == CanvasW(W) \div 2
centerY(v) == CanvasH(v) \div 2

RectAt(x, y, m, v) ==
  [l |-> x - m.w \div 2 - Pad(v), r |-> x + m.w \div 2 + Pad(v),
   t |-> y - m.h \div 2 - Pad(v), b |-> y + m.h \div 2 + Pad(v)]

\* faulty variant: the separation test taken for the overlap test
intersectNegated(a, b) == a.r < b.l \/ a.l > b.r \/ a.b < b.t \/ a.t > b.b

intersect(a, b) == ~(a.r < b.l \/ a.l > b.r \/ a.b < b.t \/ a.t > b.b)

\* faulty variant: the bounds test on the vertical extent only
OutOfBoundsVertical(rect, v, W) == rect.t < 0 \/ rect.b > CanvasH(v)

OutOfBounds(rect, v, W) ==
  rect.l < 0 \/ rect.r > CanvasW(W) \/ rect.t < 0 \/ rect.b > CanvasH(v)

\* faulty variant: a collision test that finds nothing
CollidesNever(rect, rs) == FALSE

Collides(rect, rs) == \E j \in 1..Len(rs) : intersect(rect, rs[j])

\* candidate t of the spiral: ang = 0.35 t, rad = 2 + 2 ang
SpiralPoint(t, v, W) ==
  LET rad == 2 * Unit + (2 * 35 * t * Unit) \div 100
  IN [x |-> centerX(W) + RoundDiv(rad * CosTab[t + 1], TrigUnit),
      y |-> centerY(v) + RoundDiv(rad * SinTab[t + 1], TrigUnit)]

\* one step of 1 px from (x, y) toward the canvas centre
StepToCenter(x, y, v, W) ==
  LET vx == centerX(W) - x
      vy == centerY(v) - y
      len == Hypot(vx, vy)
  IN [x |-> x + RoundDiv(vx * Unit, len), y |-> y + RoundDiv(vy * Unit, len)]

\* one iteration of the per-item squeeze loop; q.stop records the break
SqueezeStep(q, m, rs, v, W) ==
  LET n == StepToCenter(q.x, q.y, v, W)
      nrect == RectAt(n.x, n.y, m, v)
  IN IF OutOfBounds(nrect, v, W) \/ Collides(nrect, rs)
     THEN [q EXCEPT !.stop = TRUE]
     ELSE [x |-> n.x, y |-> n.y, steps |-> q.steps + 1, stop |-> FALSE]

\* n consecutive iterations of the squeeze loop (none after the break)
RECURSIVE SqueezeRun(_, _, _, _, _, _)
SqueezeRun(q, n, m, rs, v, W) ==
  IF q.stop \/ n = 0 THEN q
  ELSE IF n = 1 THEN SqueezeStep(q, m, rs, v, W)
  ELSE SqueezeRun(SqueezeRun(q, n \div 2, m, rs, v, W), n - n \div 2, m, rs, v, W)

\* faulty variant: a squeeze that also takes the step that failed its tests
SqueezeOvershoot(x, y, m, rs, v, W) ==
  LET q == SqueezeRun([x |-> x, y |-> y, steps |-> 0, stop |-> FALSE],
                      SqueezeCap(v), m, rs, v, W)
      n == StepToCenter(q.x, q.y, v, W)
  IN IF q.stop THEN [q EXCEPT !.x = n.x, !.y = n.y] ELSE q

\* faulty variant: no squeeze, the word stays at the accepted candidate
SqueezeNone(x, y, m, rs, v, W) == [x |-> x, y |-> y, steps |-> 0, stop |-> FALSE]

\* the per-item squeeze loop from the accepted candidate (x, y)
Squeeze(x, y, m, rs, v, W) ==
  SqueezeRun([x |-> x, y |-> y, steps |-> 0, stop |-> FALSE],
             SqueezeCap(v), m, rs, v, W)

\* a spiral candidate passes the bounds test and the collision test
Fits(t, m, rs, v, W) ==
  LET p == SpiralPoint(t, v, W)
      rect == RectAt(p.x, p.y, m, v)
  IN ~OutOfBounds(rect, v, W) /\ ~Collides(rect, rs)

\* faulty variant: a search that returns the last t that fits
RECURSIVE LastFitIn(_, _, _, _, _, _)
LastFitIn(lo, hi, m, rs, v, W) ==
  IF lo > hi THEN -1
  ELSE IF lo = hi THEN (IF Fits(lo, m, rs, v, W) THEN lo ELSE -1)
  ELSE LET mid == (lo + hi) \div 2
           last == LastFitIn(mid + 1, hi, m, rs, v, W)
       IN IF last >= 0 THEN last ELSE LastFitIn(lo, mid, m, rs, v, W)

\* the spiral loop at one font size over t = lo .. hi: the first t that
\* fits, or -1
RECURSIVE FirstFitIn(_, _, _, _, _, _)
FirstFitIn(lo, hi, m, rs, v, W) ==
  IF lo > hi THEN -1
  ELSE IF lo = hi THEN (IF Fits(lo, m, rs, v, W) THEN lo ELSE -1)
  ELSE LET mid == (lo + hi) \div 2
           first == FirstFitIn(lo, mid, m, rs, v, W)
       IN IF first >= 0 THEN first ELSE FirstFitIn(mid + 1, hi, m, rs, v, W)

\* The iterations of the spiral loop that cannot pass the bounds test are
\* not evaluated one by one.  rad grows with t: beyond LastReach the
\* candidate point itself is farther from the centre than the canvas
\* corners.  And a box wider or higher than the canvas is out of bounds
\* wherever it is centred, so no iteration accepts it.
LastReach(v, W) ==
  LET diag == Sqrt(centerX(W) * centerX(W) + centerY(v) * centerY(v)) + 1
  IN (diag * 100) \div (2 * 35 * Unit) + 2

LastCandidate(m, v, W) ==
  IF m.w + 2 * Pad(v) > CanvasW(W) \/ m.h + 2 * Pad(v) > CanvasH(v)
  THEN -1
  ELSE Min2(SpiralCap(v) - 1, LastReach(v, W))

\* faulty variant: a spiral loop that tries its first candidate only
FirstFitAtStart(m, rs, v, W) ==
  FirstFitIn(0, Min2(0, LastCandidate(m, v, W)), m, rs, v, W)

FirstFit(m, rs, v, W) == FirstFitIn(0, LastCandidate(m, v, W), m, rs, v, W)

\* faulty variant: a font-size loop that goes down two steps at a time
RECURSIVE TryFromSkipping(_, _, _, _, _)
TryFromSkipping(fs, w, rs, v, W) ==
  IF fs < MinFont THEN [ok |-> FALSE]
  ELSE LET m == measure(w.text, fs)
           t == FirstFit(m, rs, v, W)
       IN IF t < 0 THEN TryFromSkipping(fs - 2 * FontStep, w, rs, v, W)
          ELSE LET p == SpiralPoint(t, v, W)
                   q == Squeeze(p.x, p.y, m, rs, v, W)
               IN [ok |-> TRUE, size |-> fs, x |-> q.x, y |-> q.y,
                   rect |-> RectAt(q.x, q.y, m, v), t |-> t, steps |-> q.steps]

\* the font-size loop of one word, from size fs downward
RECURSIVE TryFrom(_, _, _, _, _)
TryFrom(fs, w, rs, v, W) ==
  IF fs < MinFont THEN [ok |-> FALSE]
  ELSE LET m == measure(w.text, fs)
           t == FirstFit(m, rs, v, W)
       IN IF t < 0 THEN TryFrom(fs - FontStep, w, rs, v, W)
          ELSE LET p == SpiralPoint(t, v, W)
                   q == Squeeze(p.x, p.y, m, rs, v, W)
               IN [ok |-> TRUE, size |-> fs, x |-> q.x, y |-> q.y,
                   rect |-> RectAt(q.x, q.y, m, v), t |-> t, steps |-> q.steps]

\* faulty variant: the font loop started one step above the assigned size
PlaceOneLarger(w, rs, v, W) == TryFrom(w.size + FontStep, w, rs, v, W)

\* faulty variant: a word that found no room put at the centre at the floor
PlaceOneForced(w, rs, v, W) ==
  LET res == TryFrom(w.size, w, rs, v, W)
      m == measure(w.text, MinFont)
  IN IF res.ok THEN res
     ELSE [ok |-> TRUE, size |-> MinFont, x |-> centerX(W), y |-> centerY(v),
           rect |-> RectAt(centerX(W), centerY(v), m, v), t |-> 0, steps |-> 0]

PlaceOne(w, rs, v, W) == TryFrom(w.size, w, rs, v, W)

\* ------------------------------------------------------------ the pass
\* Math.random(): the value drawn in generator state g (in hundredths) and
\* the state after the draw
RandomValue(g) == (37 * g + 11) % 100
RandomNext(g) == (g + 1) % RngStates

\* palette[Math.floor(Math.random() * palette.length)]
PickColor(r) == (r * PaletteLen) \div 100

\* faulty variant: the number of rounds without its upper limit
PassCountUncapped(n) == Max2(20, 6000 \div (IF n = 0 THEN 1 ELSE n))

\* faulty variant: no lower bound on the number of rounds
PassCountNoFloor(n) == Min2(60, 6000 \div (IF n = 0 THEN 1 ELSE n))

\* Math.min(60, Math.max(20, Math.floor(6000 / (placed.length || 1))))
PassCount(n) == Min2(60, Max2(20, 6000 \div (IF n = 0 THEN 1 ELSE n)))

NoProbe == [t |-> -1, steps |-> 0]

\* bounds of the store: calls of loadAllData
MaxCalls == 2
Loaders == 1..4

\* the store as defineStore leaves it: no call made
StoreIdle ==
  /\ loading = FALSE
  /\ error = "null"
  /\ datasets = [k \in Loaders |-> "empty"]
  /\ calls = [c \in 1..MaxCalls |->
                [st |-> "idle", loaders |-> [k \in Loaders |-> "idle"]]]

\* the view before it is mounted
LifeIdle ==
  /\ mounted = "no"
  /\ listening = FALSE
  /\ resizeTimer = 0
  /\ timers = {}
  /\ now = 0
  /\ resizeEvents = <<>>
  /\ redraws = <<>>
  /\ container = <<>>
  /\ draws = <<>>

\* no chart axis has been computed
AxisIdle ==
  /\ maxValue = 0
  /\ roundedMaxValue = 0
  /\ interval = 0
  /\ ticks = <<>>
  /\ nextTick = 0

Init ==
  /\ view \in Views
  /\ pc = "idle"
  /\ data = <<>>
  /\ width = 0
  /\ words = <<>>
  /\ idx = 1
  /\ placed = <<>>
  /\ rects = <<>>
  /\ pass = 0
  /\ wi = 1
  /\ passes = 0
  /\ drawn = <<>>
  /\ emptyMsg = FALSE
  /\ probe = NoProbe
  /\ rng = 0
  /\ placedCount = 0
  /\ AxisIdle
  /\ StoreIdle
  /\ LifeIdle

\* faulty variant: a pass that starts with the lists of the pass before
StartKeepingLists(d, W) ==
  /\ pc \in {"idle", "done"}
  /\ data' = d
  /\ width' = W
  /\ drawn' = <<>>
  /\ idx' = 1
  /\ pass' = 0
  /\ wi' = 1
  /\ passes' = 0
  /\ probe' = NoProbe
  /\ IF view = "count" /\ Items(view, d) = <<>>
     THEN /\ emptyMsg' = TRUE
          /\ words' = <<>>
          /\ pc' = "done"
     ELSE /\ emptyMsg' = FALSE
          /\ words' = SortedWords(view, d)
          /\ pc' = "placing"
  /\ UNCHANGED <<otherVars, view, rng, placed, rects>>

\* drawWordCloud up to the placement loop: clear the container, read the
\* width, take the records, filter, size, sort, start with empty lists
Start(d, W) ==
  /\ pc \in {"idle", "done"}
  /\ data' = d
  /\ width' = W
  /\ drawn' = <<>>
  /\ placed' = <<>>
  /\ rects' = <<>>
  /\ idx' = 1
  /\ pass' = 0
  /\ wi' = 1
  /\ passes' = 0
  /\ probe' = NoProbe
  /\ IF view = "count" /\ Items(view, d) = <<>>
     THEN /\ emptyMsg' = TRUE
          /\ words' = <<>>
          /\ pc' = "done"
     ELSE /\ emptyMsg' = FALSE
          /\ words' = SortedWords(view, d)
          /\ pc' = "placing"
  /\ UNCHANGED <<otherVars, view, rng>>

\* faulty variant: loops that do not stop at the accepted candidate and push
\* it again
PushesAgain(w, rs, v, W) ==
  LET res == PlaceOne(w, rs, v, W) IN IF res.ok THEN <<res, res>> ELSE <<>>

\* what one iteration of words.forEach pushes for word w: the loops stop at
\* the first accepted candidate (placedOk), so at most one placement
Pushes(w, rs, v, W) ==
  LET res == PlaceOne(w, rs, v, W) IN IF res.ok THEN <<res>> ELSE <<>>

PlacedWord(w, res, r) ==
  [text |-> w.text, size |-> res.size, x |-> res.x, y |-> res.y,
   color |-> PickColor(r), src |-> w.src]

\* one iteration of words.forEach: place the word or drop it
PlaceWord ==
  /\ pc = "placing"
  /\ idx <= Len(words)
  /\ \E ps \in {Pushes(words[idx], rects, view, width)} :
       IF ps = <<>>
       THEN /\ UNCHANGED <<placed, rects, rng>>
            /\ probe' = NoProbe
       ELSE /\ placed' = placed \o [i \in 1..Len(ps) |->
                                      PlacedWord(words[idx], ps[i], RandomValue(rng))]
            /\ rects' = rects \o [i \in 1..Len(ps) |-> ps[i].rect]
            /\ rng' = RandomNext(rng)
            /\ probe' = [t |-> ps[1].t, steps |-> ps[1].steps]
  /\ idx' = idx + 1
  /\ UNCHANGED <<otherVars, view, pc, data, width, words, pass, wi, passes, drawn, emptyMsg>>

\* after the placement loop: the number of global rounds (basic view only)
BeginCompaction ==
  /\ pc = "placing"
  /\ idx > Len(words)
  /\ view = "basic"
  /\ passes' = PassCount(Len(placed))
  /\ pass' = 0
  /\ wi' = 1
  /\ pc' = "compacting"
  /\ UNCHANGED <<otherVars, view, data, width, words, idx, placed, rects, drawn, emptyMsg, probe, rng>>

\* faulty variant: a global move tested against the word's own rectangle too
MoveResultSelfTest(i, pl, rs, v, W) ==
  LET w == pl[i]
      m == measure(w.text, w.size)
      n == StepToCenter(w.x, w.y, v, W)
      nrect == RectAt(n.x, n.y, m, v)
  IN IF OutOfBounds(nrect, v, W) \/ Collides(nrect, rs)
     THEN [moved |-> FALSE]
     ELSE [moved |-> TRUE, x |-> n.x, y |-> n.y, rect |-> nrect]

\* faulty variant: a global move that leaves the rectangle where it was
MoveResultStaleRect(i, pl, rs, v, W) ==
  LET w == pl[i]
      m == measure(w.text, w.size)
      n == StepToCenter(w.x, w.y, v, W)
      nrect == RectAt(n.x, n.y, m, v)
      collide == \E j \in 1..Len(rs) : j # i /\ intersect(nrect, rs[j])
  IN IF OutOfBounds(nrect, v, W) \/ collide
     THEN [moved |-> FALSE]
     ELSE [moved |-> TRUE, x |-> n.x, y |-> n.y, rect |-> rs[i]]

\* faulty variant: a global move that tests the canvas only
MoveResultNoCollision(i, pl, rs, v, W) ==
  LET w == pl[i]
      m == measure(w.text, w.size)
      n == StepToCenter(w.x, w.y, v, W)
      nrect == RectAt(n.x, n.y, m, v)
  IN IF OutOfBounds(nrect, v, W)
     THEN [moved |-> FALSE]
     ELSE [moved |-> TRUE, x |-> n.x, y |-> n.y, rect |-> nrect]

\* the body of the inner loop of the global squeeze for placed[i]
MoveResult(i, pl, rs, v, W) ==
  LET w == pl[i]
      m == measure(w.text, w.size)
      n == StepToCenter(w.x, w.y, v, W)
      nrect == RectAt(n.x, n.y, m, v)
      collide == \E j \in 1..Len(rs) : j # i /\ intersect(nrect, rs[j])
  IN IF OutOfBounds(nrect, v, W) \/ collide
     THEN [moved |-> FALSE]
     ELSE [moved |-> TRUE, x |-> n.x, y |-> n.y, rect |-> nrect]

CompactMove ==
  /\ pc = "compacting"
  /\ pass < passes
  /\ wi <= Len(placed)
  /\ \E res \in {MoveResult(wi, placed, rects, view, width)} :
       IF res.moved
       THEN /\ placed' = [placed EXCEPT ![wi].x = res.x, ![wi].y = res.y]
            /\ rects' = [rects EXCEPT ![wi] = res.rect]
       ELSE UNCHANGED <<placed, rects>>
  /\ IF wi = Len(placed)
     THEN pass' = pass + 1 /\ wi' = 1
     ELSE pass' = pass /\ wi' = wi + 1
  /\ UNCHANGED <<otherVars, view, pc, data, width, words, idx, passes, drawn, emptyMsg, probe, rng>>

\* a round of the global squeeze when nothing was placed: no inner iteration
EmptyRound ==
  /\ pc = "compacting"
  /\ pass < passes
  /\ Len(placed) = 0
  /\ pass' = pass + 1
  /\ UNCHANGED <<otherVars, view, pc, data, width, words, idx, placed, rects, wi, passes, drawn, emptyMsg, probe, rng>>

\* svg.selectAll('text').data(placed).enter().append('text')
Draw ==
  /\ \/ pc = "compacting" /\ pass >= passes
     \/ pc = "placing" /\ idx > Len(words) /\ view = "count"
  /\ drawn' = placed
  /\ pc' = "done"
  /\ UNCHANGED <<otherVars, view, data, width, words, idx, placed, rects, pass, wi, passes, emptyMsg, probe, rng>>

\* onMounted: the first drawing, of whatever records and container width
Mount == \E d \in DataSets(view), W \in Widths : pc = "idle" /\ Start(d, W)

\* the debounced resize handler: redraw the same records at the new width
Redraw == \E W \in Widths : pc = "done" /\ Start(data, W)

Next == Mount \/ Redraw \/ PlaceWord \/ BeginCompaction \/ CompactMove \/ EmptyRound \/ Draw

Spec == Init /\ [][Next]_vars

\* ------------------------------------------------------- named layouts
\* a usable record with a label of len glyphs and the given weight
Rec(len, value) == [len |-> len, value |-> value, academic |-> TRUE]

Repeat(rec, n) == [i \in 1..n |-> rec]

\* many records of weight 100 in a container one column wide
Crowded ==
  {[data |-> Repeat(Rec(len, 100), MaxCrowd), W |-> 20] : len \in LabelLengths}

\* three records of weights 10, 5 and 1 in a container 800 px wide
Sparse ==
  {[data |-> <<Rec(a, 10), Rec(b, 5), Rec(c, 1)>>, W |-> 800] :
     a \in LabelLengths, b \in LabelLengths, c \in LabelLengths}

\* one record of weight 50, in a container 400 px wide and in a narrow one
Single ==
  {[data |-> <<Rec(a, 50)>>, W |-> w] : a \in LabelLengths, w \in {34, 400}}

\* two records of the same weight in a container 800 px wide
Pair ==
  {[data |-> <<Rec(a, x), Rec(b, x)>>, W |-> 800] :
     a \in LabelLengths, b \in LabelLengths, x \in Weights}

Scenarios == Crowded \cup Sparse \cup Single \cup Pair

\* onMounted with one of the named record lists and widths
ScenarioMount == \E s \in Scenarios : pc = "idle" /\ Start(s.data, s.W)

ScenarioNext ==
  ScenarioMount \/ PlaceWord \/ BeginCompaction \/ CompactMove \/ EmptyRound \/ Draw

ScenarioSpec == Init /\ [][ScenarioNext]_vars

\* ------------------------------------------------- the round count alone
\* const passes = ... evaluated for placed.length = 0, 1, 2, ..., MaxPlaced
RoundsInit ==
  /\ view = "basic"
  /\ pc = "rounds"
  /\ data = <<>>
  /\ width = 0
  /\ words = <<>>
  /\ idx = 1
  /\ placed = <<>>
  /\ rects = <<>>
  /\ pass = 0
  /\ wi = 1
  /\ drawn = <<>>
  /\ emptyMsg = FALSE
  /\ probe = NoProbe
  /\ rng = 0
  /\ placedCount = 0
  /\ passes = PassCount(placedCount)
  /\ AxisIdle
  /\ StoreIdle
  /\ LifeIdle

RoundsStep ==
  /\ pc = "rounds"
  /\ placedCount < MaxPlaced
  /\ placedCount' = placedCount + 1
  /\ passes' = PassCount(placedCount')
  /\ UNCHANGED <<view, pc, data, width, words, idx, placed, rects, pass, wi,
                 drawn, emptyMsg, probe, rng, axisVars, storeVars, lifeVars>>

RoundsSpec == RoundsInit /\ [][RoundsStep]_vars

\* ------------------------------------------------------- the chart axis
\* Math.ceil(a / b) for a >= 0, b > 0
CeilDiv(a, b) == (a + b - 1) \div b

\* const maxValue = d3.max(...) || 1, as a multiple of 1/ValDen
AxisValues == (1..(MaxValue * ValDen)) \cup {k * ValDen : k \in BigValues}

\* faulty variant: the rounded maximum without the two-interval minimum
getRoundedMaxNoMinimum(num) ==
  LET base == IF num > 1000 * ValDen
              THEN Max2(500, CeilDiv(num, 5000 * ValDen) * 250)
              ELSE IF num > 100 * ValDen
              THEN Max2(50, CeilDiv(num, 500 * ValDen) * 25)
              ELSE IF num > 50 * ValDen THEN 10
              ELSE 5
      iv == IF base % 5 # 0 THEN CeilDiv(base, 5) * 5 ELSE base
  IN CeilDiv(num, iv * ValDen) * iv

\* getRoundedMax(val) for val = num / ValDen
getRoundedMax(num) ==
  LET base == IF num > 1000 * ValDen
              THEN Max2(500, CeilDiv(num, 5000 * ValDen) * 250)
              ELSE IF num > 100 * ValDen
              THEN Max2(50, CeilDiv(num, 500 * ValDen) * 25)
              ELSE IF num > 50 * ValDen THEN 10
              ELSE IF num > 25 * ValDen THEN 5
              ELSE 5
      iv == IF base % 5 # 0 THEN CeilDiv(base, 5) * 5 ELSE base
      roundedMax == CeilDiv(num, iv * ValDen) * iv
  IN IF roundedMax < 2 * iv THEN iv * 2 ELSE roundedMax

AxisInit ==
  /\ view \in Views
  /\ pc = "axis"
  /\ data = <<>>
  /\ width = 0
  /\ words = <<>>
  /\ idx = 1
  /\ placed = <<>>
  /\ rects = <<>>
  /\ pass = 0
  /\ wi = 1
  /\ passes = 0
  /\ drawn = <<>>
  /\ emptyMsg = FALSE
  /\ probe = NoProbe
  /\ rng = 0
  /\ placedCount = 0
  /\ maxValue \in AxisValues
  /\ roundedMaxValue = 0
  /\ interval = 0
  /\ ticks = <<>>
  /\ nextTick = 0
  /\ StoreIdle
  /\ LifeIdle

\* const roundedMaxValue = getRoundedMax(maxValue); calculateYTicks begins
RoundMax ==
  /\ pc = "axis"
  /\ roundedMaxValue' = getRoundedMax(maxValue)
  /\ ticks' = <<0>>
  /\ interval' = 5
  /\ pc' = "search"
  /\ UNCHANGED <<outsideAxis, maxValue, nextTick>>

\* while (roundedMax / interval > 4) interval += 5
SearchStep ==
  /\ pc = "search"
  /\ roundedMaxValue > 4 * interval
  /\ interval' = interval + 5
  /\ UNCHANGED <<outsideAxis, pc, maxValue, roundedMaxValue, ticks, nextTick>>

\* the while loop ends; for (let i = interval; ...
SearchEnd ==
  /\ pc = "search"
  /\ ~(roundedMaxValue > 4 * interval)
  /\ nextTick' = interval
  /\ pc' = "fill"
  /\ UNCHANGED <<outsideAxis, maxValue, roundedMaxValue, interval, ticks>>

\* ticks.push(i); if (ticks.length >= 5) break; i += interval
FillStep ==
  /\ pc = "fill"
  /\ nextTick <= roundedMaxValue
  /\ ticks' = Append(ticks, nextTick)
  /\ IF Len(ticks') >= 5
     THEN pc' = "axisDone" /\ UNCHANGED nextTick
     ELSE nextTick' = nextTick + interval /\ UNCHANGED pc
  /\ UNCHANGED <<outsideAxis, maxValue, roundedMaxValue, interval>>

\* i <= roundedMax fails; return ticks
FillEnd ==
  /\ pc = "fill"
  /\ nextTick > roundedMaxValue
  /\ pc' = "axisDone"
  /\ UNCHANGED <<outsideAxis, axisVars>>

AxisNext == RoundMax \/ SearchStep \/ SearchEnd \/ FillStep \/ FillEnd

AxisSpec == AxisInit /\ [][AxisNext]_vars

\* a started computation runs to its end
AxisFairSpec == AxisSpec /\ WF_vars(AxisNext)

\* ------------------------------------------------------- the data store
StoreInit ==
  /\ view \in Views
  /\ pc = "store"
  /\ data = <<>>
  /\ width = 0
  /\ words = <<>>
  /\ idx = 1
  /\ placed = <<>>
  /\ rects = <<>>
  /\ pass = 0
  /\ wi = 1
  /\ passes = 0
  /\ drawn = <<>>
  /\ emptyMsg = FALSE
  /\ probe = NoProbe
  /\ rng = 0
  /\ placedCount = 0
  /\ AxisIdle
  /\ StoreIdle
  /\ LifeIdle

SetLoader(c, k, st) == [calls EXCEPT ![c].loaders[k] = st]

\* loadAllData up to its await: the flags are set and the four loaders are
\* called, each running to its await fetch(...)
StartCall(c) ==
  /\ pc = "store"
  /\ calls[c].st = "idle"
  /\ \A b \in 1..(c - 1) : calls[b].st # "idle"
  /\ loading' = TRUE
  /\ error' = "null"
  /\ calls' = [calls EXCEPT ![c] = [st |-> "running",
                                     loaders |-> [k \in Loaders |-> "fetch"]]]
  /\ UNCHANGED <<datasets, outsideStore>>

\* faulty variant: a loader whose catch block throws the error on
CatchAndRethrow(c, k, msg) ==
  /\ error' = msg
  /\ calls' = SetLoader(c, k, "rejected")
  /\ UNCHANGED <<loading, datasets>>

\* catch (err) { console.error(...); error.value = err.message; }
Catch(c, k, msg) ==
  /\ error' = msg
  /\ calls' = SetLoader(c, k, "done")
  /\ UNCHANGED <<loading, datasets>>

\* await fetch(...) settles: a response that is ok, a response that is not
\* (throw new Error(`HTTP error! ...`)), or a rejection
FetchSettle(c, k) ==
  /\ pc = "store"
  /\ calls[c].loaders[k] = "fetch"
  /\ \/ calls' = SetLoader(c, k, "json") /\ UNCHANGED <<loading, error, datasets>>
     \/ Catch(c, k, "http")
     \/ Catch(c, k, "network")
  /\ UNCHANGED outsideStore

\* await response.json() settles: the mapped data is stored in the ref, or
\* the parse (or the mapping) throws
JsonSettle(c, k) ==
  /\ pc = "store"
  /\ calls[c].loaders[k] = "json"
  /\ \/ /\ datasets' = [datasets EXCEPT ![k] = "loaded"]
        /\ calls' = SetLoader(c, k, "done")
        /\ UNCHANGED <<loading, error>>
     \/ Catch(c, k, "parse")
  /\ UNCHANGED outsideStore

\* faulty variant: loadAllData without its finally block
FinishKeepsLoading(c) ==
  /\ pc = "store"
  /\ calls[c].st = "running"
  /\ \A k \in Loaders : calls[c].loaders[k] = "done"
  /\ calls' = [calls EXCEPT ![c].st = "finished"]
  /\ UNCHANGED <<loading, error, datasets, outsideStore>>

\* await Promise.all([...]) settles: fulfilled when the four loaders are
\* done, rejected as soon as one has thrown (catch); then finally
Finish(c) ==
  /\ pc = "store"
  /\ calls[c].st = "running"
  /\ IF \E k \in Loaders : calls[c].loaders[k] = "rejected"
     THEN error' = "thrown"
     ELSE /\ \A k \in Loaders : calls[c].loaders[k] = "done"
          /\ UNCHANGED error
  /\ loading' = FALSE
  /\ calls' = [calls EXCEPT ![c].st = "finished"]
  /\ UNCHANGED <<datasets, outsideStore>>

StoreProgress ==
  \E c \in 1..MaxCalls :
    \/ \E k \in Loaders : FetchSettle(c, k)
    \/ \E k \in Loaders : JsonSettle(c, k)
    \/ Finish(c)

StoreNext == (\E c \in 1..MaxCalls : StartCall(c)) \/ StoreProgress

StoreSpec == StoreInit /\ [][StoreNext]_vars

\* one loadAllData call; every fetch settles and every continuation runs
SingleCallNext == StartCall(1) \/ StoreProgress

SingleCallFairSpec ==
  StoreInit /\ [][SingleCallNext]_vars /\ WF_vars(SingleCallNext)

\* ------------------------------------------------- the life of the view
DebounceTicks == DebounceMs \div TickMs

LifeInit ==
  /\ view \in Views
  /\ pc = "life"
  /\ data = <<>>
  /\ width = 0
  /\ words = <<>>
  /\ idx = 1
  /\ placed = <<>>
  /\ rects = <<>>
  /\ pass = 0
  /\ wi = 1
  /\ passes = 0
  /\ drawn = <<>>
  /\ emptyMsg = FALSE
  /\ probe = NoProbe
  /\ rng = 0
  /\ placedCount = 0
  /\ AxisIdle
  /\ StoreIdle
  /\ LifeIdle

\* an svg without text elements
NoWords == [inv |-> 0, width |-> 0]

\* the words invocation k lays out for the container width it read
WordsOf(k, w) == [inv |-> k, width |-> w]

\* faulty variant: the svg appended without clearing the container
AttachWithoutClearing(cont, k) == Append(cont, k)

\* container.selectAll('*').remove(); container.append('svg')
Attach(cont, k) == <<k>>

\* drawWordCloud to its first suspension: the container is cleared, its
\* width read and the svg appended; the basic view then awaits d3.json,
\* the count view lays out and draws at once
StartDraw(w) ==
  LET k == Len(draws) + 1
  IN /\ container' = Attach(container, k)
     /\ draws' = Append(draws,
                        IF view = "basic"
                        THEN [st |-> "pending", width |-> w, texts |-> NoWords]
                        ELSE [st |-> "done", width |-> w, texts |-> WordsOf(k, w)])

\* redrawAll(): with the view's DOM present the word cloud is drawn again
RedrawAll(cause, present) ==
  /\ redraws' = Append(redraws, [at |-> now, cause |-> cause, mounted |-> present])
  /\ IF present
     THEN \E w \in Widths : StartDraw(w)
     ELSE UNCHANGED <<container, draws>>

\* a timer whose time has come runs before anything else happens
NoTimerDue == \A t \in timers : t.due > now

\* onMounted of the basic view: redrawAll(), then the listener is added
MountView ==
  /\ pc = "life"
  /\ view = "basic"
  /\ mounted = "no"
  /\ mounted' = "yes"
  /\ RedrawAll("mount", TRUE)
  /\ listening' = TRUE
  /\ UNCHANGED <<resizeTimer, timers, now, resizeEvents, outsideLife>>

\* onMounted of the count view up to await dataStore.loadAllData()
MountLoading ==
  /\ pc = "life"
  /\ view = "count"
  /\ mounted = "no"
  /\ mounted' = "yes"
  /\ UNCHANGED <<listening, resizeTimer, timers, now, resizeEvents, redraws,
                 container, draws, outsideLife>>

\* the rest of onMounted of the count view, in nextTick: redrawAll(), then
\* the listener is added; after an unmount redrawAll works on a document
\* without the view and may throw before the listener is added
MountReady ==
  /\ pc = "life"
  /\ view = "count"
  /\ mounted \in {"yes", "gone"}
  /\ redraws = <<>>
  /\ NoTimerDue
  /\ RedrawAll("mount", mounted = "yes")
  /\ IF mounted = "yes" THEN listening' = TRUE ELSE listening' \in BOOLEAN
  /\ UNCHANGED <<mounted, resizeTimer, timers, now, resizeEvents, outsideLife>>

\* faulty variant: a resize handler that does not clear the pending timer
OnResizeNoClear(id) ==
  /\ timers' = timers \cup {[id |-> id, due |-> now + DebounceTicks]}
  /\ resizeTimer' = id

\* onResize: if (resizeTimer) clearTimeout(resizeTimer);
\* resizeTimer = setTimeout(..., 200)
OnResize(id) ==
  /\ timers' = {t \in timers : t.id # resizeTimer}
                  \cup {[id |-> id, due |-> now + DebounceTicks]}
  /\ resizeTimer' = id

\* the window is resized while the listener is registered
Resize ==
  /\ pc = "life"
  /\ listening
  /\ NoTimerDue
  /\ Len(resizeEvents) < MaxResizes
  /\ OnResize(Len(resizeEvents) + 1)
  /\ resizeEvents' = Append(resizeEvents, now)
  /\ UNCHANGED <<mounted, listening, now, redraws, container, draws, outsideLife>>

\* TickMs milliseconds pass
Tick ==
  /\ pc = "life"
  /\ mounted # "no"
  /\ NoTimerDue
  /\ now < MaxTime
  /\ now' = now + 1
  /\ UNCHANGED <<mounted, listening, resizeTimer, timers, resizeEvents, redraws,
                 container, draws, outsideLife>>

\* the callback of a timer: redrawAll()
TimerFire ==
  /\ pc = "life"
  /\ \E t \in timers :
       /\ t.due <= now
       /\ timers' = timers \ {t}
  /\ RedrawAll("resize", mounted = "yes")
  /\ UNCHANGED <<mounted, listening, resizeTimer, now, resizeEvents, outsideLife>>

\* onUnmounted: the listener is removed if onMounted has saved it; the
\* view's elements leave the document
Unmount ==
  /\ pc = "life"
  /\ mounted = "yes"
  /\ NoTimerDue
  /\ mounted' = "gone"
  /\ listening' = FALSE
  /\ container' = <<>>
  /\ UNCHANGED <<resizeTimer, timers, now, resizeEvents, redraws, draws, outsideLife>>

\* await d3.json(config.url) of invocation k resolves: the words are laid out
\* and appended to the svg this invocation created
FetchResolve(k) ==
  /\ pc = "life"
  /\ draws[k].st = "pending"
  /\ draws' = [draws EXCEPT ![k] = [st |-> "done", width |-> @.width,
                                     texts |-> WordsOf(k, @.width)]]
  /\ UNCHANGED <<mounted, listening, resizeTimer, timers, now, resizeEvents,
                 redraws, container, outsideLife>>

LifeNext ==
  \/ MountView
  \/ MountLoading
  \/ MountReady
  \/ Resize
  \/ Tick
  \/ TimerFire
  \/ Unmount
  \/ \E k \in 1..Len(draws) : FetchResolve(k)

LifeSpec == LifeInit /\ [][LifeNext]_vars

\* ================================================================ claims
\* the padded box of a placed word, from its own text, size and position
BoxOf(p) ==
  LET tw == p.text * p.size * Unit
      th == (p.size * Unit * 6) \div 5
      pd == IF view = "basic" THEN Unit ELSE 2 * Unit
  IN [l |-> p.x - tw \div 2 - pd, r |-> p.x + tw \div 2 + pd,
      t |-> p.y - th \div 2 - pd, b |-> p.y + th \div 2 + pd]

\* two boxes share a point (touching counts)
Overlap(a, b) == a.l <= b.r /\ b.l <= a.r /\ a.t <= b.b /\ b.t <= a.b

InsideCanvas(a) ==
  /\ 0 <= a.l
  /\ a.r <= width * Unit
  /\ 0 <= a.t
  /\ a.b <= (IF view = "basic" THEN 360 ELSE 400) * Unit

\* the size assigned to the input record at position s
AssignedOf(s) == (CHOOSE k \in 1..Len(words) : words[k].src = s)

\* C1: in the drawn output of a pass no two distinct words have padded boxes
\* that intersect or touch
C1_NoOverlap ==
  pc = "done" =>
    \A i, j \in 1..Len(drawn) : i < j => ~Overlap(BoxOf(drawn[i]), BoxOf(drawn[j]))

C1_Witness ==
  /\ pc = "done"
  /\ view = "basic"
  /\ Len(drawn) >= 2
  /\ drawn[2].x # drawn[1].x

\* C2: at every point of a pass (after placement, after the per-item squeeze
\* and after each global move) every placed word's padded box is inside the
\* canvas
C2_Bounds == \A i \in 1..Len(placed) : InsideCanvas(BoxOf(placed[i]))

C2_Witness ==
  /\ pc = "compacting"
  /\ pass > 0
  /\ \E i \in 1..Len(placed) : BoxOf(placed[i]).l < 2 * Unit

\* the placed words are distinct input records carrying the record's label
C3_Inv ==
  /\ Len(placed) <= Len(data)
  /\ \A i \in 1..Len(placed) :
       /\ placed[i].src \in 1..Len(data)
       /\ placed[i].text = data[placed[i].src].len
       /\ \A j \in 1..Len(placed) : i # j => placed[i].src # placed[j].src

\* C3: the placed words are distinct input records carrying the record's
\* label, so there are at most as many as records; one placement step adds at
\* most one word and moves on to the next word
C3_OnePerItem ==
  /\ []C3_Inv
  /\ [][(pc = "placing" /\ pc' = "placing")
          => (Len(placed') <= Len(placed) + 1 /\ idx' = idx + 1)]_vars

C3_Witness == pc = "done" /\ Len(placed) = 2 /\ Len(data) = 2

\* the font sizes the loop of one word goes through
TriedSizes(size) == {fs \in MinFont..size : (size - fs) % FontStep = 0}

\* no candidate of the spiral at any tried size is inside the canvas and clear
\* of the placed boxes
NoRoomFor(w) ==
  \A fs \in TriedSizes(w.size) :
    \A t \in 0..Min2(SpiralCap(view) - 1, LastReach(view, width)) :
       LET p == SpiralPoint(t, view, width)
           box == BoxOf([text |-> w.text, size |-> fs, x |-> p.x, y |-> p.y])
       IN \/ ~InsideCanvas(box)
          \/ \E j \in 1..Len(placed) : Overlap(box, BoxOf(placed[j]))

\* C4: a word with no valid candidate at any tried size is skipped: the
\* placed list and the rectangle list stay as they were, the pass goes on
\* with the next word and never comes back to an earlier one
C4_SilentDrop ==
  [][(pc = "placing" /\ idx <= Len(words))
       => /\ pc' = "placing"
          /\ idx' = idx + 1
          /\ NoRoomFor(words[idx]) => (placed' = placed /\ rects' = rects)]_vars

C4_Witness ==
  /\ pc = "done"
  /\ Len(words) = 2
  /\ Len(placed) = 1
  /\ placed[1].src = words[2].src

\* C5: a placed word's font size is at most the size assigned to its record
\* and at least 10
C5_SizeNonInflation ==
  \A i \in 1..Len(placed) :
    /\ placed[i].size <= words[AssignedOf(placed[i].src)].size
    /\ placed[i].size >= 10

C5_Witness ==
  /\ pc = "done"
  /\ \E i \in 1..Len(placed) : placed[i].size < words[AssignedOf(placed[i].src)].size
  /\ \E i \in 1..Len(placed) : placed[i].size = words[AssignedOf(placed[i].src)].size

\* C6: among the words of a pass a larger weight never gets a smaller
\* assigned size, and equal weights get equal sizes
C6_MonotonicSizing ==
  \A a, b \in 1..Len(words) :
    /\ words[a].value > words[b].value => words[a].size >= words[b].size
    /\ words[a].value = words[b].value => words[a].size = words[b].size

C6_Witness ==
  /\ Len(words) = 2
  /\ words[1].value > words[2].value
  /\ words[1].size > words[2].size

\* the work left in a pass: words still to attempt, then rounds times words
Fuel ==
  CASE pc = "placing" ->
         (Len(words) + 1 - idx) + 60 * Max2(1, Len(words)) + 2
    [] pc = "compacting" ->
         (passes - pass) * Max2(1, Len(placed)) - (wi - 1) + 1
    [] OTHER -> 0

C7_Caps ==
  /\ probe.t < (IF view = "basic" THEN 3000 ELSE 2000)
  /\ probe.steps <= (IF view = "basic" THEN 140 ELSE 80)
  /\ passes <= 60
  /\ pass <= passes
  /\ idx <= Len(words) + 1
  /\ \A k \in 1..Len(words) : Cardinality(TriedSizes(words[k].size)) <= 18
  /\ Fuel >= 0

\* a pass that has not drawn yet has a loop iteration or the drawing to run
NextStepReady ==
  \/ pc = "placing" /\ idx <= Len(words)
  \/ pc = "placing" /\ idx > Len(words) /\ view \in Views
  \/ pc = "compacting" /\ pass < passes /\ wi <= Len(placed)
  \/ pc = "compacting" /\ pass < passes /\ Len(placed) = 0
  \/ pc = "compacting" /\ pass >= passes

\* C7: a pass finishes: the accepted spiral index stays below the cap, the
\* squeeze takes at most 140 (80) steps, the global squeeze at most 60
\* rounds, a pass that has not drawn yet always has a next step, and every
\* step of the pass uses up some of the finite work left
C7_Termination ==
  /\ []C7_Caps
  /\ []((pc \in {"placing", "compacting"}) => NextStepReady)
  /\ [][(pc \in {"placing", "compacting"}) => (Fuel' < Fuel)]_vars

C7_Witness ==
  /\ pc = "done"
  /\ view = "basic"
  /\ pass = 60
  /\ Len(placed) = 2
  /\ probe.steps > 0

\* no record of the dataset passes the view's filter
NoUsableRecord ==
  \A i \in 1..Len(data) :
    IF view = "basic"
    THEN data[i].len = 0 \/ data[i].value <= 0
    ELSE ~data[i].academic \/ data[i].value <= 0

\* C8: with no usable record nothing is placed and nothing is drawn, and the
\* pass still gets to its end
C8_EmptyInput ==
  NoUsableRecord =>
    /\ placed = <<>>
    /\ rects = <<>>
    /\ drawn = <<>>
    /\ pc \in {"idle", "placing", "compacting", "done"}
    /\ pc = "placing" => idx > Len(words)

C8_Witness ==
  /\ pc = "done"
  /\ NoUsableRecord
  /\ Len(data) = 2
  /\ drawn = <<>>

\* position in the word list of the placed word i
WordIndexOf(i) == CHOOSE k \in 1..Len(words) : words[k].src = placed[i].src

\* C9: the word list is in non-increasing order of assigned size, equal sizes
\* in input order; the placed words follow the order of the word list and all
\* precede the word being attempted, so their assigned sizes are >= its own
C9_ProcessingOrder ==
  /\ \A a, b \in 1..Len(words) :
       a < b => \/ words[a].size > words[b].size
                \/ words[a].size = words[b].size /\ words[a].src < words[b].src
  /\ \A i \in 1..Len(placed) :
       /\ WordIndexOf(i) < idx
       /\ \A j \in 1..Len(placed) : i < j => WordIndexOf(i) < WordIndexOf(j)
       /\ idx <= Len(words) => words[WordIndexOf(i)].size >= words[idx].size

C9_Witness ==
  /\ pc = "placing"
  /\ Len(words) = 2
  /\ idx = 2
  /\ Len(placed) = 1
  /\ words[1].size = words[2].size
  /\ words[1].text # words[2].text

\* text, size and position of the words, without the colour
Geometry(pl) ==
  [i \in 1..Len(pl) |->
     [text |-> pl[i].text, size |-> pl[i].size, x |-> pl[i].x, y |-> pl[i].y]]

\* the lists after attempting the first k words, starting from empty lists
RECURSIVE PlacedFromScratch(_, _, _, _)
PlacedFromScratch(ws, k, v, W) ==
  IF k = 0 THEN [pl |-> <<>>, rs |-> <<>>]
  ELSE LET before == PlacedFromScratch(ws, k - 1, v, W)
           res == PlaceOne(ws[k], before.rs, v, W)
       IN IF res.ok
          THEN [pl |-> Append(before.pl, [text |-> ws[k].text, size |-> res.size,
                                          x |-> res.x, y |-> res.y]),
                rs |-> Append(before.rs, res.rect)]
          ELSE before

\* n consecutive iterations of the inner loop of the global squeeze, the
\* first one being iteration number from (counted from 0 over all rounds)
RECURSIVE MovesFromScratch(_, _, _, _, _)
MovesFromScratch(st, from, n, v, W) ==
  IF st.pl = <<>> \/ n = 0 THEN st
  ELSE IF n = 1
  THEN LET i == (from % Len(st.pl)) + 1
           res == MoveResult(i, st.pl, st.rs, v, W)
       IN IF res.moved
          THEN [pl |-> [st.pl EXCEPT ![i].x = res.x, ![i].y = res.y],
                rs |-> [st.rs EXCEPT ![i] = res.rect]]
          ELSE st
  ELSE MovesFromScratch(MovesFromScratch(st, from, n \div 2, v, W),
                        from + n \div 2, n - n \div 2, v, W)

LayoutFromScratch(v, d, W) ==
  LET ws == SortedWords(v, d)
      st == PlacedFromScratch(ws, Len(ws), v, W)
  IN IF v = "count" THEN st.pl
     ELSE MovesFromScratch(st, 0, PassCount(Len(st.pl)) * Len(st.pl), v, W).pl

ValidLayout(pl) ==
  /\ \A i, j \in 1..Len(pl) : i < j => ~Overlap(BoxOf(pl[i]), BoxOf(pl[j]))
  /\ \A i \in 1..Len(pl) : InsideCanvas(BoxOf(pl[i]))

\* C11: the placed words are free of overlap and inside the canvas when the
\* placement loop ends, before any global round, and again after every single
\* word move of the global squeeze
C11_ValidWithoutGlobalPass ==
  /\ (pc = "placing" /\ idx > Len(words)) => ValidLayout(placed)
  /\ pc = "compacting" => ValidLayout(placed)

C11_Witness ==
  /\ pc = "compacting"
  /\ Len(placed) = 2
  /\ wi = 2
  /\ Geometry(placed) # PlacedFromScratch(words, Len(words), view, width).pl

\* the largest number of padded boxes of a word of the shortest label at the
\* floor size that fit in the canvas without touching: columns times rows
MinLabel == SeqMin([k \in 1..Len(words) |-> words[k].text])

Capacity ==
  LET b == BoxOf([text |-> MinLabel, size |-> 10, x |-> 0, y |-> 0])
      cols == (width * Unit + 1) \div ((b.r - b.l) + 1)
      rows == ((IF view = "basic" THEN 360 ELSE 400) * Unit + 1) \div ((b.b - b.t) + 1)
  IN cols * rows

IsSparse ==
  /\ Len(data) = 3
  /\ data[1].value = 10
  /\ data[2].value = 5
  /\ data[3].value = 1
  /\ width = 800

\* C13: three records of weights 10, 5 and 1 in a container 800 px wide are
\* all drawn, free of overlap and inside the canvas
C13_Sparse ==
  (pc = "done" /\ IsSparse) => (Len(drawn) = 3 /\ ValidLayout(drawn))

C13_Witness ==
  /\ pc = "done"
  /\ IsSparse
  /\ view = "count"
  /\ Len(drawn) = 3
  /\ drawn[1].size > drawn[2].size
  /\ drawn[2].size > drawn[3].size

\* the canvas centre
MidX == (width * Unit) \div 2
MidY == ((IF view = "basic" THEN 360 ELSE 400) * Unit) \div 2

AtCentre(p) == p.x = MidX /\ p.y = MidY

\* the padded box of word p, at its size, fits at the first spiral candidate
FitsFirstCandidate(p) ==
  InsideCanvas(BoxOf([text |-> p.text, size |-> p.size, x |-> MidX + 2 * Unit, y |-> MidY]))

\* one record of weight 50 in a container 400 px wide
IsSingle == Len(data) = 1 /\ data[1].value = 50 /\ width = 400

\* the first placed word sits at the centre if its box fits at the first
\* spiral candidate (centre.x + 2, centre.y), and the single record of weight
\* 50 at width 400 is drawn there
C14_FirstWord ==
  /\ Len(placed) >= 1 /\ FitsFirstCandidate(placed[1]) => AtCentre(placed[1])
  /\ (pc = "done" /\ IsSingle) => (Len(drawn) = 1 /\ AtCentre(drawn[1]))

FitsAtCentre(p) ==
  InsideCanvas(BoxOf([text |-> p.text, size |-> p.size, x |-> MidX, y |-> MidY]))

IsPair == Len(data) = 2 /\ data[1].value = data[2].value /\ width = 800

\* C15: two records of equal weight in an ample container are both drawn,
\* their padded boxes do not intersect, and both keep the size assigned to
\* them, which is the same for the two
C15_EqualWeights ==
  (pc = "done" /\ IsPair) =>
    /\ Len(drawn) = 2
    /\ ~Overlap(BoxOf(drawn[1]), BoxOf(drawn[2]))
    /\ words[1].size = words[2].size
    /\ drawn[1].size = words[1].size
    /\ drawn[2].size = words[2].size

C15_Witness ==
  /\ pc = "done"
  /\ IsPair
  /\ view = "basic"
  /\ Len(drawn) = 2
  /\ drawn[1].size = 42
  /\ drawn[2].size = 42
  /\ drawn[1].text # drawn[2].text

\* candidate t of the spiral for word w at size fs is inside the canvas and
\* clear of the placed boxes
ValidCandidate(w, fs, t) ==
  LET p == SpiralPoint(t, view, width)
      box == BoxOf([text |-> w.text, size |-> fs, x |-> p.x, y |-> p.y])
  IN /\ InsideCanvas(box)
     /\ \A j \in 1..Len(placed) : ~Overlap(box, BoxOf(placed[j]))

\* the candidates the spiral loop can accept: below the cap, and not farther
\* from the centre than the canvas reaches
Candidates == 0..Min2(SpiralCap(view) - 1, LastReach(view, width))

RoomAt(w, fs) == \E t \in Candidates : ValidCandidate(w, fs, t)

\* C16: the sizes tried for a word are its assigned size s, s - 2, s - 4, ...
\* not below 10; the word is placed at the largest of them that has a valid
\* spiral candidate and is dropped only when none has one
C16_FontFallback ==
  [][(pc = "placing" /\ idx <= Len(words)) =>
       IF Len(placed') > Len(placed)
       THEN LET fs == placed'[Len(placed')].size
            IN /\ fs \in TriedSizes(words[idx].size)
               /\ RoomAt(words[idx], fs)
               /\ \A g \in TriedSizes(words[idx].size) :
                    g > fs => ~RoomAt(words[idx], g)
       ELSE \A g \in TriedSizes(words[idx].size) : ~RoomAt(words[idx], g)]_vars

C16_Witness ==
  /\ pc = "done"
  /\ Len(words) = 2
  /\ Len(placed) = 2
  /\ placed[1].size + 2 * FontStep <= words[AssignedOf(placed[1].src)].size
  /\ placed[2].size = words[AssignedOf(placed[2].src)].size

\* candidate k of the spiral: centre + (2 + 2 * 0.35 k) (cos 0.35 k, sin 0.35 k)
SpiralCandidate(k) ==
  LET radius == 2 * Unit + (70 * k * Unit) \div 100
  IN [x |-> MidX + RoundDiv(radius * CosTab[k + 1], TrigUnit),
      y |-> MidY + RoundDiv(radius * SinTab[k + 1], TrigUnit)]

\* the padded box of word w at size fs on candidate k is inside the canvas
\* and intersects no placed box
FreeAt(w, fs, k) ==
  LET c == SpiralCandidate(k)
      box == BoxOf([text |-> w.text, size |-> fs, x |-> c.x, y |-> c.y])
  IN /\ InsideCanvas(box)
     /\ \A j \in 1..Len(placed) : ~Overlap(box, BoxOf(placed[j]))

TowardCentre(pt) ==
  LET vx == MidX - pt.x
      vy == MidY - pt.y
      d == IF vx = 0 /\ vy = 0 THEN Unit ELSE Sqrt(vx * vx + vy * vy)
  IN [x |-> pt.x + RoundDiv(vx * Unit, d), y |-> pt.y + RoundDiv(vy * Unit, d)]

\* the padded box of word w at size fs centred on pt is inside the canvas and
\* intersects no placed box
FreeOn(w, fs, pt) ==
  LET box == BoxOf([text |-> w.text, size |-> fs, x |-> pt.x, y |-> pt.y])
  IN /\ InsideCanvas(box)
     /\ \A j \in 1..Len(placed) : ~Overlap(box, BoxOf(placed[j]))

\* n steps toward the centre from st, as long as every position stepped on
\* is free, which ok records
RECURSIVE Walk(_, _, _, _)
Walk(st, n, w, fs) ==
  IF ~st.ok \/ n = 0 THEN st
  ELSE IF n = 1
  THEN LET pt == TowardCentre(st)
       IN [x |-> pt.x, y |-> pt.y, ok |-> st.ok /\ FreeOn(w, fs, pt)]
  ELSE Walk(Walk(st, n \div 2, w, fs), n - n \div 2, w, fs)

\* C18: a placed word is recorded where the accepted candidate arrives after
\* the counted number of 1 px steps toward the centre, at most 140 (80) of
\* them, each onto a free position; unless the cap was reached the next step
\* is not free; the rectangle recorded is the padded box at that position
C18_PerItemSqueeze ==
  [][(pc = "placing" /\ idx <= Len(words) /\ Len(placed') > Len(placed)) =>
       LET p == placed'[Len(placed')]
           n == probe'.steps
           c == SpiralCandidate(probe'.t)
           end == Walk([x |-> c.x, y |-> c.y, ok |-> TRUE], n, words[idx], p.size)
       IN /\ n \in 0..(IF view = "basic" THEN 140 ELSE 80)
          /\ end.ok
          /\ p.x = end.x /\ p.y = end.y
          /\ n < (IF view = "basic" THEN 140 ELSE 80)
               => ~FreeOn(words[idx], p.size, TowardCentre(p))
          /\ Len(rects') = Len(placed')
          /\ rects'[Len(rects')] = BoxOf(p)]_vars

C18_Witness ==
  /\ pc = "placing"
  /\ Len(placed) = 2
  /\ probe.steps > 2
  /\ probe.steps < 80
  /\ probe.t > 0

\* word i, moved 1 px toward the centre, is inside the canvas and clear of
\* the boxes the other words have now
CanMove(i) ==
  LET n == TowardCentre(placed[i])
      box == BoxOf([placed[i] EXCEPT !.x = n.x, !.y = n.y])
  IN /\ InsideCanvas(box)
     /\ \A j \in 1..Len(placed) : j # i => ~Overlap(box, BoxOf(placed[j]))

\* C19: a step of the global squeeze takes the words in list order; word i
\* moves 1 px toward the centre exactly when its moved box is inside the
\* canvas and intersects no current box of another word, its own box not
\* being tested; otherwise its position and rectangle stay; nothing else of
\* the placed words changes: texts, sizes, colours, number and order
C19_GlobalMoveRule ==
  [][(pc = "compacting" /\ pass < passes /\ Len(placed) > 0) =>
       LET n == TowardCentre(placed[wi])
       IN /\ wi \in 1..Len(placed)
          /\ wi' = (IF wi = Len(placed) THEN 1 ELSE wi + 1)
          /\ pass' = (IF wi = Len(placed) THEN pass + 1 ELSE pass)
          /\ Len(placed') = Len(placed)
          /\ Len(rects') = Len(rects)
          /\ \A j \in 1..Len(placed) :
               j # wi => (placed'[j] = placed[j] /\ rects'[j] = rects[j])
          /\ IF CanMove(wi)
             THEN /\ placed'[wi] = [placed[wi] EXCEPT !.x = n.x, !.y = n.y]
                  /\ rects'[wi] = BoxOf(placed'[wi])
             ELSE /\ placed'[wi] = placed[wi]
                  /\ rects'[wi] = rects[wi]]_vars

C19_Witness ==
  /\ pc = "compacting"
  /\ pass >= 2
  /\ wi = 1
  /\ Len(placed) = 2
  /\ ~CanMove(2)
  /\ LET start == PlacedFromScratch(words, Len(words), view, width).pl
     IN placed[1].x # start[1].x \/ placed[1].y # start[1].y

\* the count the formula names: n is taken as 1 when nothing was placed
CountedWords == IF placedCount = 0 THEN 1 ELSE placedCount

\* q = floor(6000 / n), stated without division
IsFloorOf6000(q, n) == q * n <= 6000 /\ 6000 < (q + 1) * n

C20_Value ==
  pc = "rounds" =>
    /\ passes \in 20..60
    /\ \E q \in 0..6000 :
         /\ IsFloorOf6000(q, CountedWords)
         /\ passes = (IF q > 60 THEN 60 ELSE IF q < 20 THEN 20 ELSE q)
    /\ (placedCount <= 100 => passes = 60)
    /\ (placedCount >= 300 => passes = 20)

\* C20: the number of global compaction rounds is
\* min(60, max(20, floor(6000 / n))) for n placed words, n taken as 1 when
\* nothing was placed; it lies in 20..60, is 60 for n <= 100, 20 for
\* n >= 300, and never grows when n grows.
C20_RoundCount ==
  /\ []C20_Value
  /\ [][(pc = "rounds" /\ placedCount' > placedCount) => passes' <= passes]_vars

C20_Witness ==
  pc = "rounds" /\ placedCount = 301 /\ passes = 20

\* C21: every assigned size is the rounded value, floored at 10, of the
\* scale from the weights [0, largest weight] to the sizes [12, largest
\* size of the view]; it is an integer from 10 to that largest size, and a
\* word of the largest weight gets the largest size, also when all weights
\* are equal.
C21_SizeRange ==
  \A i \in 1..Len(words) :
    LET hi == SeqMax(Values(words))
    IN /\ words[i].size = Max2(MinFont, sizeScale(view, 0, hi, words[i].value))
       /\ words[i].size \in MinFont..MaxFontPx(view)
       /\ (words[i].value = hi => words[i].size = MaxFontPx(view))

C22_RoundedMax ==
  pc \in {"search", "fill", "axisDone"} =>
    /\ roundedMaxValue % 5 = 0
    /\ roundedMaxValue * ValDen >= maxValue
    /\ roundedMaxValue >= 10

C22_Ticks ==
  pc = "axisDone" =>
    /\ Len(ticks) \in 2..5
    /\ ticks[1] = 0
    /\ \A k \in 1..(Len(ticks) - 1) : ticks[k] < ticks[k + 1]
    /\ \A k \in 1..Len(ticks) : ticks[k] % 5 = 0 /\ ticks[k] <= roundedMaxValue

\* C22: for every positive maximum the rounded maximum is a multiple of 5,
\* at least the maximum and at least 10; the ticks computed from it are 2
\* to 5 in number, start with 0, increase strictly, are multiples of 5 and
\* do not exceed the rounded maximum; the interval search ends.
C22_YTicks ==
  /\ []C22_RoundedMax
  /\ []C22_Ticks
  /\ (pc = "search") ~> (pc = "fill")
  /\ <>(pc = "axisDone")

C22_Witness ==
  /\ pc = "axisDone"
  /\ maxValue = 3 * ValDen
  /\ roundedMaxValue = 10
  /\ ticks = <<0, 5, 10>>

\* C30: for every positive maximum the largest tick equals the rounded
\* maximum, the top of the axis domain.
C30_TopTick ==
  pc = "axisDone" => ticks[Len(ticks)] = roundedMaxValue

Running(c) == calls[c].st = "running"

Finished(c) == calls[c].st = "finished"

\* C23: loadAllData sets loading to true and error to null when it starts;
\* when the call completes loading is false, whatever the loaders did; a
\* single call whose fetches all settle ends with loading false.
C23_LoadingFlag ==
  /\ [][(~Running(1) /\ Running(1)') => (loading' = TRUE /\ error' = "null")]_vars
  /\ [][(Running(1) /\ Finished(1)') => (loading' = FALSE)]_vars
  /\ [](Running(1) => loading = TRUE)
  /\ [](Finished(1) => loading = FALSE)
  /\ Running(1) ~> (Finished(1) /\ loading = FALSE)
  /\ <>Finished(1)

C23_Witness ==
  /\ Finished(1)
  /\ loading = FALSE
  /\ error = "network"
  /\ datasets[1] = "loaded"
  /\ datasets[2] = "empty"

\* the step in which loader k of call c ends in its catch block after its
\* fetch rejected or answered with a status that is not ok
FetchFails(c, k) ==
  /\ calls[c].loaders[k] = "fetch"
  /\ calls'[c].loaders[k] \notin {"fetch", "json"}

\* C24: when the fetch of a dataset rejects or answers with a status that
\* is not ok, the loader sets error to the failure message, leaves its
\* dataset ref as it was, ends without throwing to its caller, and the
\* other loaders go on and store their datasets.
C24_ErrorContainment ==
  /\ [][\A c \in 1..MaxCalls : \A k \in Loaders :
         FetchFails(c, k) =>
           /\ error' \in {"http", "network"}
           /\ datasets' = datasets
           /\ calls'[c].loaders[k] = "done"
           /\ calls'[c].st = calls[c].st
           /\ \A j \in Loaders \ {k} : calls'[c].loaders[j] = calls[c].loaders[j]]_vars
  /\ [](\A c \in 1..MaxCalls : \A k \in Loaders : calls[c].loaders[k] # "rejected")
  /\ [](\A c \in 1..MaxCalls :
         Finished(c) => \A k \in Loaders : calls[c].loaders[k] = "done")

C24_Witness ==
  /\ Finished(1)
  /\ calls[2].st = "idle"
  /\ error = "http"
  /\ datasets = [k \in Loaders |-> IF k = 1 THEN "empty" ELSE "loaded"]

\* C29: whenever a loadAllData call has started and not yet finished, the
\* loading flag is true.
C29_LoadingUnderOverlap ==
  (\E c \in 1..MaxCalls : Running(c)) => loading = TRUE

\* C25: at every point of a pass the rectangle list is as long as the
\* placed-word list and its i-th rectangle is the padded box of the i-th
\* placed word, measured at its recorded size around its recorded position.
C25_RectBookkeeping ==
  /\ Len(rects) = Len(placed)
  /\ \A i \in 1..Len(placed) : rects[i] = BoxOf(placed[i])

C25_Witness ==
  /\ pc = "compacting"
  /\ pass >= 1
  /\ Len(placed) = 2
  /\ probe.steps > 0
  /\ LET start == PlacedFromScratch(words, Len(words), view, width).pl
     IN placed[2].x # start[2].x \/ placed[2].y # start[2].y

\* C26: once the view is unmounted no redraw is started by a resize, also
\* when the resize came less than 200 ms before the unmount.
C26_NoRedrawAfterUnmount ==
  \A i \in 1..Len(redraws) : redraws[i].cause = "resize" => redraws[i].mounted

AllDrawn == draws # <<>> /\ \A k \in 1..Len(draws) : draws[k].st = "done"

\* C27: however the drawWordCloud invocations on a container overlap and in
\* whatever order their fetches resolve, the container never holds more than
\* one svg, and once all have finished the attached svg is the one of the
\* most recently started invocation and shows the words that one computed.
C27_OverlappingRedraws ==
  (view = "basic" /\ mounted = "yes") =>
    /\ Len(container) <= 1
    /\ AllDrawn =>
         /\ container = <<Len(draws)>>
         /\ draws[Len(draws)].texts = WordsOf(Len(draws), draws[Len(draws)].width)

\* two invocations were pending together and the later one resolved first
C27_Witness ==
  /\ view = "basic"
  /\ mounted = "yes"
  /\ Len(draws) = 2
  /\ draws[1].st = "pending"
  /\ draws[2].st = "done"
  /\ draws[1].width # draws[2].width
  /\ container = <<2>>

\* the i-th resize event is the last of its burst
LastOfBurst(i) ==
  i = Len(resizeEvents) \/ resizeEvents[i + 1] >= resizeEvents[i] + DebounceTicks

\* the times at which a burst seen so far calls for its redraw
BurstRedrawTimes ==
  {resizeEvents[i] + DebounceTicks : i \in {j \in 1..Len(resizeEvents) : LastOfBurst(j)}}

\* the times of the redraws started by a resize timer, in order
ResizeRedrawTimes ==
  LET RECURSIVE Sel(_)
      Sel(i) == IF i > Len(redraws) THEN <<>>
                ELSE IF redraws[i].cause = "resize"
                THEN <<redraws[i].at>> \o Sel(i + 1)
                ELSE Sel(i + 1)
  IN Sel(1)

====
